---- MODULE Spec2Model ----
(***************************************************************************)
(* State-machine model of the graph engine of the Blobs platform           *)
(* (backend/graph_engine.py) and of the transport handlers of              *)
(* backend/main.py that guard it.                                          *)
(*                                                                         *)
(* Node and edge ids are uuid strings in the program; the model uses       *)
(* small integers.  Attribute strings are drawn from a small alphabet on   *)
(* which str.lower() is tabulated (Lower).  A node record keeps the keys   *)
(* the engine reads: id, node_type, skills, sector, location, x, y.  A     *)
(* record without a 'skills' key behaves in every engine path as one with  *)
(* an empty list (the code reads it with .get('skills', []) or skips it),  *)
(* so the model keeps skills as a set, empty when the key is absent.       *)
(***************************************************************************)
EXTENDS Integers, Sequences, FiniteSets, TLC

\* ------------------------------------------------------------------ bounds
MaxNodes == 2
MaxEdges == 2
MaxCalls == 4

\* largest depth a request asks for (the smallest is -1)
MaxDepthReq == 4

\* how many nodes beyond a cap the large stores hold
Excess == 1

\* number of nodes of the small loaded graphs
GraphNodes == 5

\* largest limit a discovery or similarity request asks for
MaxLimit == 4

\* number of nodes the small stores of people are chosen from
PeopleCount == 6

\* the small limits a search asks for, besides one as large as the store
MaxSearchLimit == 2

\* the blobs of the generated company and the generated individuals
ChildBlobCount == 2
MemberCount == 2

\* the websocket clients and the requests in flight
MaxSockets == 2
MaxRequests == 2

NodeIds == 1..MaxNodes
EdgeIds == 1..MaxEdges
Sockets == 1..MaxSockets
Requests == 1..MaxRequests

\* ------------------------------------------------------- values and strings
None == "<None>"

NodeTypeValues == {"Individual", "Project", "Blob", "Aggregated", "Skill", "Sector"}

SkillStrings == {"Go", "go", "Rust"}
SectorStrings == {"Tech", "tech", "Fin"}
LocationStrings == {"Paris", "Lyon"}

\* str.lower() on the alphabet of the model
Lower(s) ==
    CASE s = "Go" -> "go"
      [] s = "Rust" -> "rust"
      [] s = "Tech" -> "tech"
      [] s = "Fin" -> "fin"
      [] s = "Paris" -> "paris"
      [] s = "Lyon" -> "lyon"
      [] OTHER -> s

\* Python truthiness of an Optional[str]
Truthy(v) == v # None /\ v # ""

SkillKeys == {Lower(s) : s \in SkillStrings}
SectorKeys == {Lower(s) : s \in SectorStrings}
LocationKeys == {Lower(s) : s \in LocationStrings}

\* -------------------------------------------------------------- the inputs
\* Node records handed to add_node (the id is added by the caller).  The last
\* one carries a node_type that is no member of the NodeType enum.
NodeSamples ==
    << [node_type |-> "Individual", skills |-> {"Go", "go"}, sector |-> "Tech",
        location |-> "Paris", x |-> 0, y |-> 0],
       [node_type |-> "Blob", skills |-> {}, sector |-> None,
        location |-> "Lyon", x |-> 0, y |-> 0],
       [node_type |-> "Individual", skills |-> {"Rust"}, sector |-> "tech",
        location |-> None, x |-> 0, y |-> 0],
       [node_type |-> "Bogus", skills |-> {}, sector |-> None,
        location |-> None, x |-> 0, y |-> 0] >>

\* Partial updates handed to update_node: a dict with a subset of the keys
UpdateSamples ==
    << [skills |-> {"go"}],
       [skills |-> {"Rust", "Go"}, sector |-> "Fin"],
       [sector |-> "tech", location |-> None] >>

EdgeTypeSamples == {"peer"}

\* Placements spring_layout may return for a node (scale 500), and the center
\* (scale/2, scale/2) it is given
Positions == {<<0, 0>>, <<500, 250>>, <<250, 500>>}
LayoutCenter == <<250, 250>>

\* the padding of the bounding box in compute_layout
LayoutMargin == 50

\* --------------------------------------------------------------- the state
VARIABLES
    graph,              \* self.graph: the networkx Graph (nodes, undirected edges)
    node_data,          \* self.node_data: id -> record
    edge_data,          \* self.edge_data: id -> record
    nodes_by_type,      \* self.nodes_by_type
    nodes_by_skill,     \* self.nodes_by_skill
    nodes_by_sector,    \* self.nodes_by_sector
    nodes_by_location,  \* self.nodes_by_location
    layouts,            \* self.layouts: zoom level -> (id -> position)
    bounds,             \* self.bounds
    next_edge_id,       \* the next fresh edge id (uuid4 in create_edge)
    ret,                \* the last call: operation, arguments, returned value
    calls,              \* number of calls made so far
    active_connections, \* manager.active_connections: the list of websockets
    sockets,            \* each websocket: "new", "open", "gone" (the peer has
                        \* left, its handler has not run yet) or "closed"
    requests,           \* each mutation request: where its handler stands
    received            \* each websocket's client: the messages delivered to it

indices == <<nodes_by_type, nodes_by_skill, nodes_by_sector, nodes_by_location>>
store == <<graph, node_data, edge_data, indices, layouts, bounds>>
net == <<active_connections, sockets, requests, received>>
vars == <<store, next_edge_id, ret, calls, net>>

\* a request whose handler has not started
Idle == [pc |-> "idle"]

\* ConnectionManager.__init__, nobody connected, no request made
NetInit ==
    /\ active_connections = <<>>
    /\ sockets = [ws \in Sockets |-> "new"]
    /\ requests = [t \in Requests |-> Idle]
    /\ received = [ws \in Sockets |-> <<>>]

\* ------------------------------------------------- networkx Graph, as used
G_add_node(g, n) == [g EXCEPT !.nodes = @ \cup {n}]

\* Graph.add_edge adds missing endpoints; one edge per unordered pair
G_add_edge(g, u, v) == [nodes |-> g.nodes \cup {u, v}, edges |-> g.edges \cup {{u, v}}]

G_has_edge(g, u, v) == {u, v} \in g.edges

G_remove_edge(g, u, v) == [g EXCEPT !.edges = @ \ {{u, v}}]

G_remove_node(g, n) == [nodes |-> g.nodes \ {n}, edges |-> {e \in g.edges : n \notin e}]

\* Graph.degree: incident edges, a self-loop counted twice
G_degree(g, n) ==
    Cardinality({e \in g.edges : n \in e}) + (IF {n} \in g.edges THEN 1 ELSE 0)

G_neighbors(g, n) == {m \in g.nodes : {n, m} \in g.edges}

\* ------------------------------------------------------ dicts and indices
Put(d, k, v) == [j \in DOMAIN d \cup {k} |-> IF j = k THEN v ELSE d[j]]

Del(d, k) == [j \in DOMAIN d \ {k} |-> d[j]]

\* dict.update
Merge(d, u) == [k \in DOMAIN d \cup DOMAIN u |-> IF k \in DOMAIN u THEN u[k] ELSE d[k]]

\* index[key].add(id) for every key of keys
IndexAdd(idx, keys, id) ==
    [k \in DOMAIN idx |-> IF k \in keys THEN idx[k] \cup {id} ELSE idx[k]]

\* index[key].discard(id) for every key of keys
IndexDiscard(idx, keys, id) ==
    [k \in DOMAIN idx |-> IF k \in keys THEN idx[k] \ {id} ELSE idx[k]]

\* the key set of an Optional[str] attribute: nothing when it is falsy
AttrKeys(v) == IF Truthy(v) THEN {Lower(v)} ELSE {}

SkillKeysOf(skills) == {Lower(s) : s \in skills}

Init ==
    /\ graph = [nodes |-> {}, edges |-> {}]
    /\ node_data = <<>>
    /\ edge_data = <<>>
    /\ nodes_by_type = [t \in NodeTypeValues |-> {}]
    /\ nodes_by_skill = [k \in SkillKeys |-> {}]
    /\ nodes_by_sector = [k \in SectorKeys |-> {}]
    /\ nodes_by_location = [k \in LocationKeys |-> {}]
    /\ layouts = <<>>
    /\ bounds = [min_x |-> 0, max_x |-> 1000, min_y |-> 0, max_y |-> 1000]
    /\ next_edge_id = 1
    /\ ret = [op |-> "init"]
    /\ calls = 0
    /\ NetInit

\* ------------------------------------------------------------ node operations
\* add_node that leaves a stored record alone (dict.setdefault)
add_node_keep_first(nd) ==
    IF nd.node_type \notin NodeTypeValues
    THEN /\ UNCHANGED store
         /\ ret' = [op |-> "add_node", id |-> nd.id, arg |-> nd, ok |-> FALSE,
                    raised |-> "ValueError"]
    ELSE /\ graph' = G_add_node(graph, nd.id)
         /\ node_data' = IF nd.id \in DOMAIN node_data THEN node_data
                          ELSE Put(node_data, nd.id, nd)
         /\ nodes_by_type' = IndexAdd(nodes_by_type, {nd.node_type}, nd.id)
         /\ nodes_by_skill' = IndexAdd(nodes_by_skill, SkillKeysOf(nd.skills), nd.id)
         /\ nodes_by_sector' = IndexAdd(nodes_by_sector, AttrKeys(nd.sector), nd.id)
         /\ nodes_by_location' = IndexAdd(nodes_by_location, AttrKeys(nd.location), nd.id)
         /\ UNCHANGED <<edge_data, layouts, bounds>>
         /\ ret' = [op |-> "add_node", id |-> nd.id, arg |-> nd, ok |-> TRUE,
                    value |-> nd.id, replaced |-> nd.id \in DOMAIN node_data]

\* add_node that first takes the id out of every index set
add_node_reconcile(nd) ==
    IF nd.node_type \notin NodeTypeValues
    THEN /\ UNCHANGED store
         /\ ret' = [op |-> "add_node", id |-> nd.id, arg |-> nd, ok |-> FALSE,
                    raised |-> "ValueError"]
    ELSE /\ graph' = G_add_node(graph, nd.id)
         /\ node_data' = Put(node_data, nd.id, nd)
         /\ nodes_by_type' =
               IndexAdd(IndexDiscard(nodes_by_type, NodeTypeValues, nd.id),
                        {nd.node_type}, nd.id)
         /\ nodes_by_skill' =
               IndexAdd(IndexDiscard(nodes_by_skill, SkillKeys, nd.id),
                        SkillKeysOf(nd.skills), nd.id)
         /\ nodes_by_sector' =
               IndexAdd(IndexDiscard(nodes_by_sector, SectorKeys, nd.id),
                        AttrKeys(nd.sector), nd.id)
         /\ nodes_by_location' =
               IndexAdd(IndexDiscard(nodes_by_location, LocationKeys, nd.id),
                        AttrKeys(nd.location), nd.id)
         /\ UNCHANGED <<edge_data, layouts, bounds>>
         /\ ret' = [op |-> "add_node", id |-> nd.id, arg |-> nd, ok |-> TRUE,
                    value |-> nd.id, replaced |-> nd.id \in DOMAIN node_data]

\* GraphEngine.add_node.  NodeType(...) raises ValueError on a value that is
\* no member of the enum, before anything is stored.
add_node(nd) ==
    IF nd.node_type \notin NodeTypeValues
    THEN /\ UNCHANGED store
         /\ ret' = [op |-> "add_node", id |-> nd.id, arg |-> nd, ok |-> FALSE,
                    raised |-> "ValueError"]
    ELSE /\ graph' = G_add_node(graph, nd.id)
         /\ node_data' = Put(node_data, nd.id, nd)
         /\ nodes_by_type' = IndexAdd(nodes_by_type, {nd.node_type}, nd.id)
         /\ nodes_by_skill' = IndexAdd(nodes_by_skill, SkillKeysOf(nd.skills), nd.id)
         /\ nodes_by_sector' = IndexAdd(nodes_by_sector, AttrKeys(nd.sector), nd.id)
         /\ nodes_by_location' = IndexAdd(nodes_by_location, AttrKeys(nd.location), nd.id)
         /\ UNCHANGED <<edge_data, layouts, bounds>>
         /\ ret' = [op |-> "add_node", id |-> nd.id, arg |-> nd, ok |-> TRUE,
                    value |-> nd.id, replaced |-> nd.id \in DOMAIN node_data]

\* only the edge records that leave node_id
edges_to_remove_source_only(node_id) ==
    {e \in DOMAIN edge_data : edge_data[e].source = node_id}

\* the edge records remove_node deletes: those with node_id as source or target
edges_to_remove(node_id) ==
    {e \in DOMAIN edge_data :
        edge_data[e].source = node_id \/ edge_data[e].target = node_id}

\* GraphEngine.remove_node: returns (success, deleted_edge_count)
remove_node(node_id) ==
    IF node_id \notin DOMAIN node_data
    THEN /\ UNCHANGED store
         /\ ret' = [op |-> "remove_node", id |-> node_id, ok |-> FALSE, value |-> 0]
    ELSE LET nd == node_data[node_id]
             edge_count == G_degree(graph, node_id)
         IN /\ nodes_by_type' = IndexDiscard(nodes_by_type, {nd.node_type}, node_id)
            /\ nodes_by_skill' = IndexDiscard(nodes_by_skill, SkillKeysOf(nd.skills), node_id)
            /\ nodes_by_sector' = IndexDiscard(nodes_by_sector, AttrKeys(nd.sector), node_id)
            /\ nodes_by_location' =
                  IndexDiscard(nodes_by_location, AttrKeys(nd.location), node_id)
            /\ edge_data' = [e \in DOMAIN edge_data \ edges_to_remove(node_id) |-> edge_data[e]]
            /\ graph' = G_remove_node(graph, node_id)
            /\ node_data' = Del(node_data, node_id)
            /\ UNCHANGED <<layouts, bounds>>
            /\ ret' = [op |-> "remove_node", id |-> node_id, ok |-> TRUE,
                       value |-> edge_count]

\* GraphEngine.get_node: node_data.get(node_id), the record or None.  The
\* result is tagged, a stored record (a non-empty dict) being truthy.
get_node(node_id) ==
    IF node_id \in DOMAIN node_data
    THEN [found |-> TRUE, node |-> node_data[node_id]]
    ELSE [found |-> FALSE]

\* the skills index after update_node: the raw old and new lists are compared
\* as sets of strings, and only the differences touch the index
update_skills_index(idx, node_id, old_skills, new_skills) ==
    IndexAdd(IndexDiscard(idx, SkillKeysOf(old_skills \ new_skills), node_id),
             SkillKeysOf(new_skills \ old_skills), node_id)

\* the sector or location index after update_node: discard the old value
\* when it is truthy, then add the new one when it is truthy
update_attr_index(idx, node_id, old_value, new_value) ==
    IndexAdd(IndexDiscard(idx, AttrKeys(old_value), node_id), AttrKeys(new_value), node_id)

\* update_node that stores the updates under an unknown id
update_node_upsert(node_id, updates) ==
    /\ node_data' =
          IF node_id \in DOMAIN node_data
          THEN [node_data EXCEPT ![node_id] = Merge(node_data[node_id], updates)]
          ELSE Put(node_data, node_id,
                   Merge([id |-> node_id, node_type |-> "Individual", skills |-> {},
                          sector |-> None, location |-> None, x |-> 0, y |-> 0],
                         updates))
    /\ UNCHANGED <<graph, edge_data, indices, layouts, bounds>>
    /\ ret' = [op |-> "update_node", id |-> node_id, arg |-> updates, ok |-> TRUE]

\* update_node that puts the updates in the place of the record
update_node_replace(node_id, updates) ==
    IF node_id \notin DOMAIN node_data
    THEN /\ UNCHANGED store
         /\ ret' = [op |-> "update_node", id |-> node_id, arg |-> updates, ok |-> FALSE]
    ELSE LET old_data == node_data[node_id]
         IN /\ nodes_by_skill' =
                  IF "skills" \in DOMAIN updates
                  THEN update_skills_index(nodes_by_skill, node_id,
                                           old_data.skills, updates.skills)
                  ELSE nodes_by_skill
            /\ nodes_by_sector' =
                  IF "sector" \in DOMAIN updates
                  THEN update_attr_index(nodes_by_sector, node_id,
                                         old_data.sector, updates.sector)
                  ELSE nodes_by_sector
            /\ nodes_by_location' =
                  IF "location" \in DOMAIN updates
                  THEN update_attr_index(nodes_by_location, node_id,
                                         old_data.location, updates.location)
                  ELSE nodes_by_location
            /\ node_data' = [node_data EXCEPT ![node_id] = Merge([id |-> node_id], updates)]
            /\ UNCHANGED <<graph, edge_data, nodes_by_type, layouts, bounds>>
            /\ ret' = [op |-> "update_node", id |-> node_id, arg |-> updates, ok |-> TRUE]

\* GraphEngine.update_node
update_node(node_id, updates) ==
    IF node_id \notin DOMAIN node_data
    THEN /\ UNCHANGED store
         /\ ret' = [op |-> "update_node", id |-> node_id, arg |-> updates, ok |-> FALSE]
    ELSE LET old_data == node_data[node_id]
         IN /\ nodes_by_skill' =
                  IF "skills" \in DOMAIN updates
                  THEN update_skills_index(nodes_by_skill, node_id,
                                           old_data.skills, updates.skills)
                  ELSE nodes_by_skill
            /\ nodes_by_sector' =
                  IF "sector" \in DOMAIN updates
                  THEN update_attr_index(nodes_by_sector, node_id,
                                         old_data.sector, updates.sector)
                  ELSE nodes_by_sector
            /\ nodes_by_location' =
                  IF "location" \in DOMAIN updates
                  THEN update_attr_index(nodes_by_location, node_id,
                                         old_data.location, updates.location)
                  ELSE nodes_by_location
            /\ node_data' = [node_data EXCEPT ![node_id] = Merge(old_data, updates)]
            /\ UNCHANGED <<graph, edge_data, nodes_by_type, layouts, bounds>>
            /\ ret' = [op |-> "update_node", id |-> node_id, arg |-> updates, ok |-> TRUE]

\* ------------------------------------------------------------ edge operations
\* GraphEngine.add_edge: no check of the endpoints
add_edge(ed) ==
    /\ graph' = G_add_edge(graph, ed.source, ed.target)
    /\ edge_data' = Put(edge_data, ed.id, ed)

\* create_edge that checks the source only
create_edge_status_source_only(data) ==
    IF ~get_node(data.source).found THEN "404 Source node not found" ELSE "200"

\* the checks of the create_edge handler: 404 unless both endpoints are stored
create_edge_status(data) ==
    IF ~get_node(data.source).found THEN "404 Source node not found"
    ELSE IF ~get_node(data.target).found THEN "404 Target node not found"
    ELSE "200"

\* the create_edge handler of main.py: checks, a fresh id, add_edge, broadcast.
\* The id is a fresh uuid; the model numbers the edges in creation order.
create_edge(data) ==
    IF create_edge_status(data) # "200"
    THEN /\ UNCHANGED store
         /\ ret' = [op |-> "create_edge", arg |-> data, ok |-> FALSE,
                    status |-> create_edge_status(data), broadcast |-> [type |-> "none"]]
    ELSE LET ed == Merge(data, [id |-> next_edge_id])
         IN /\ add_edge(ed)
            /\ UNCHANGED <<node_data, indices, layouts, bounds>>
            /\ ret' = [op |-> "create_edge", arg |-> data, ok |-> TRUE,
                       status |-> "200", value |-> ed,
                       broadcast |-> [type |-> "edge_created", edge |-> ed]]

\* GraphEngine.remove_edge
remove_edge(edge_id) ==
    IF edge_id \notin DOMAIN edge_data
    THEN /\ UNCHANGED store
         /\ ret' = [op |-> "remove_edge", id |-> edge_id, ok |-> FALSE]
    ELSE LET edge == edge_data[edge_id]
         IN /\ graph' = IF G_has_edge(graph, edge.source, edge.target)
                        THEN G_remove_edge(graph, edge.source, edge.target)
                        ELSE graph
            /\ edge_data' = Del(edge_data, edge_id)
            /\ UNCHANGED <<node_data, indices, layouts, bounds>>
            /\ ret' = [op |-> "remove_edge", id |-> edge_id, ok |-> TRUE]

\* ---------------------------------------------------------------- the layout
SetMin(S) == CHOOSE v \in S : \A w \in S : v <= w

SetMax(S) == CHOOSE v \in S : \A w \in S : v >= w

\* networkx.spring_layout(graph, scale, center=(scale/2, scale/2)): a random
\* force-directed placement, here any placement on the sample positions; a
\* graph of one node is placed at the center.
spring_layout(g) ==
    IF Cardinality(g.nodes) = 1
    THEN {[n \in g.nodes |-> LayoutCenter]}
    ELSE [g.nodes -> Positions]

\* compute_layout that takes the bounding box without the margin
compute_layout_unpadded(pos) ==
    IF graph.nodes = {}
    THEN /\ UNCHANGED store
         /\ ret' = [op |-> "compute_layout", value |-> <<>>]
    ELSE LET xs == {pos[n][1] : n \in DOMAIN pos}
             ys == {pos[n][2] : n \in DOMAIN pos}
         IN /\ node_data' =
                  [n \in DOMAIN node_data |->
                      IF n \in DOMAIN pos
                      THEN [node_data[n] EXCEPT !.x = pos[n][1], !.y = pos[n][2]]
                      ELSE node_data[n]]
            /\ bounds' = [min_x |-> SetMin(xs), max_x |-> SetMax(xs),
                          min_y |-> SetMin(ys), max_y |-> SetMax(ys)]
            /\ layouts' = Put(layouts, 1, pos)
            /\ UNCHANGED <<graph, edge_data, indices>>
            /\ ret' = [op |-> "compute_layout", value |-> pos]

\* compute_layout that stores the placement under the detail zoom level
compute_layout_detail_tier(pos) ==
    IF graph.nodes = {}
    THEN /\ UNCHANGED store
         /\ ret' = [op |-> "compute_layout", value |-> <<>>]
    ELSE LET xs == {pos[n][1] : n \in DOMAIN pos}
             ys == {pos[n][2] : n \in DOMAIN pos}
         IN /\ node_data' =
                  [n \in DOMAIN node_data |->
                      IF n \in DOMAIN pos
                      THEN [node_data[n] EXCEPT !.x = pos[n][1], !.y = pos[n][2]]
                      ELSE node_data[n]]
            /\ bounds' = [min_x |-> SetMin(xs) - LayoutMargin,
                          max_x |-> SetMax(xs) + LayoutMargin,
                          min_y |-> SetMin(ys) - LayoutMargin,
                          max_y |-> SetMax(ys) + LayoutMargin]
            /\ layouts' = Put(layouts, 2, pos)
            /\ UNCHANGED <<graph, edge_data, indices>>
            /\ ret' = [op |-> "compute_layout", value |-> pos]

\* GraphEngine.compute_layout, pos being the placement spring_layout returned
compute_layout(pos) ==
    IF graph.nodes = {}
    THEN /\ UNCHANGED store
         /\ ret' = [op |-> "compute_layout", value |-> <<>>]
    ELSE LET xs == {pos[n][1] : n \in DOMAIN pos}
             ys == {pos[n][2] : n \in DOMAIN pos}
         IN /\ node_data' =
                  [n \in DOMAIN node_data |->
                      IF n \in DOMAIN pos
                      THEN [node_data[n] EXCEPT !.x = pos[n][1], !.y = pos[n][2]]
                      ELSE node_data[n]]
            /\ bounds' = [min_x |-> SetMin(xs) - LayoutMargin,
                          max_x |-> SetMax(xs) + LayoutMargin,
                          min_y |-> SetMin(ys) - LayoutMargin,
                          max_y |-> SetMax(ys) + LayoutMargin]
            /\ layouts' = Put(layouts, 1, pos)
            /\ UNCHANGED <<graph, edge_data, indices>>
            /\ ret' = [op |-> "compute_layout", value |-> pos]

\* ------------------------------------------------------- the viewport query
\* Optional[str] fields of a request: <<>> is None, <<id>> is the id
NoId == <<>>

\* ViewportRequest.max_depth is cut to 3 levels
MaxDepthCap == 3

\* depth of the neighbourhood search of the overview tier
TierOneDepth == 2

\* cap on the individuals the overview tier adds
MaxIndividuals == 200

\* cap on the nodes a detail query without a center returns
MaxViewportNodes == 2000

\* the order in which Python walks a set is not fixed by the program: the
\* calls sample two orders, by increasing and by decreasing id
SetOrders == {"asc", "desc"}

\* set(list(S)[:n]): the first n members of S in the order the set is walked,
\* that is S without the members that come after the n-th
RECURSIVE DropLast(_, _, _)
DropLast(S, k, order) ==
    IF k <= 0 \/ S = {}
    THEN S
    ELSE DropLast(S \ {IF order = "asc" THEN SetMax(S) ELSE SetMin(S)}, k - 1, order)

Truncate(S, n, order) ==
    IF n <= 0 THEN {} ELSE DropLast(S, Cardinality(S) - n, order)

\* the loop of GraphEngine._get_neighbors_bfs, `left` levels still to walk
RECURSIVE bfs_levels(_, _, _)
bfs_levels(visited, current_level, left) ==
    IF left <= 0 \/ current_level = {}
    THEN visited
    ELSE LET next_level ==
                 UNION {G_neighbors(graph, n) : n \in current_level} \ visited
         IN bfs_levels(visited \cup next_level, next_level, left - 1)

\* GraphEngine._get_neighbors_bfs
_get_neighbors_bfs(center_id, max_depth) ==
    IF center_id \notin graph.nodes
    THEN {}
    ELSE bfs_levels({center_id}, {center_id}, max_depth)

\* GraphEngine._get_nodes_in_bounds: the test reads the stored record
_get_nodes_in_bounds(min_x, max_x, min_y, max_y) ==
    {n \in DOMAIN node_data :
        /\ min_x <= node_data[n].x /\ node_data[n].x <= max_x
        /\ min_y <= node_data[n].y /\ node_data[n].y <= max_y}

CoarseTypes == {"Aggregated", "Blob", "Project"}

\* a depth taken as asked
clamp_depth_none(depth) == depth

\* min(request.max_depth, 3)
clamp_depth(depth) == IF depth < MaxDepthCap THEN depth ELSE MaxDepthCap

\* the node set of get_viewport_graph, by zoom tier
visible_nodes(request, order) ==
    LET max_depth == clamp_depth(request.max_depth)
        coarse == UNION {nodes_by_type[t] : t \in CoarseTypes}
        centered == request.center_node_id # NoId
    IN IF request.zoom_level = 0
       THEN coarse
       ELSE IF request.zoom_level = 1
       THEN IF centered
            THEN LET nearby == _get_neighbors_bfs(request.center_node_id[1],
                                                  TierOneDepth)
                     individuals == nearby \cap nodes_by_type["Individual"]
                 IN coarse \cup Truncate(individuals, MaxIndividuals, order)
            ELSE coarse
       ELSE IF centered
            THEN _get_neighbors_bfs(request.center_node_id[1], max_depth)
            ELSE Truncate(_get_nodes_in_bounds(
                              request.center_x - request.width \div 2,
                              request.center_x + request.width \div 2,
                              request.center_y - request.height \div 2,
                              request.center_y + request.height \div 2),
                          MaxViewportNodes, order)

\* a round of the edge loop that looks for the pair in one direction only
edge_step_one_direction(edge_id, visible, st) ==
    IF edge_id \notin DOMAIN edge_data
    THEN st
    ELSE LET edge == edge_data[edge_id]
         IN IF /\ edge.source \in visible
               /\ edge.target \in visible
               /\ <<edge.source, edge.target>> \notin st.edge_set
            THEN [edge_set |-> st.edge_set \cup {<<edge.source, edge.target>>},
                  visible_edges |-> Append(st.visible_edges, edge)]
            ELSE st

\* one round of the edge loop of get_viewport_graph: the edge is kept when
\* both ends are visible and its pair, in either direction, is not yet taken
edge_step(edge_id, visible, st) ==
    IF edge_id \notin DOMAIN edge_data
    THEN st
    ELSE LET edge == edge_data[edge_id]
             source == edge.source
             target == edge.target
         IN IF /\ source \in visible
               /\ target \in visible
               /\ <<source, target>> \notin st.edge_set
               /\ <<target, source>> \notin st.edge_set
            THEN [edge_set |-> st.edge_set \cup {<<source, target>>},
                  visible_edges |-> Append(st.visible_edges, edge)]
            ELSE st

\* `second`, once `first` has its value: keeps a long loop from being
\* unwound backwards
After(first, second) == IF first = first THEN second ELSE second

\* the edge loop over the ids lo..hi: edge_data is walked in insertion order,
\* which is the order of the ids (the lower half first, then the upper half)
RECURSIVE edge_loop(_, _, _, _)
edge_loop(lo, hi, visible, st) ==
    IF lo > hi THEN st
    ELSE IF lo = hi THEN edge_step(lo, visible, st)
    ELSE LET mid == (lo + hi) \div 2
             lower == edge_loop(lo, mid, visible, st)
         IN After(lower, edge_loop(mid + 1, hi, visible, lower))

visible_edges(visible) ==
    edge_loop(1, next_edge_id - 1, visible,
              [edge_set |-> {}, visible_edges |-> <<>>]).visible_edges

\* the node loop of get_viewport_graph: a copy of each stored record, its
\* position taken from the level-1 layout when the layout holds the node
viewport_record(node_id) ==
    IF 1 \in DOMAIN layouts /\ node_id \in DOMAIN layouts[1]
    THEN [node_data[node_id] EXCEPT !.x = layouts[1][node_id][1],
                                    !.y = layouts[1][node_id][2]]
    ELSE node_data[node_id]

\* get_viewport_graph that sets the cached position on the stored record, not
\* on a copy of it
get_viewport_graph_in_place(request, order) ==
    LET visible == visible_nodes(request, order)
    IN /\ node_data' = [n \in DOMAIN node_data |->
                           IF n \in visible THEN viewport_record(n) ELSE node_data[n]]
       /\ UNCHANGED <<graph, edge_data, indices, layouts, bounds>>
       /\ ret' = [op |-> "get_viewport_graph",
                  arg |-> request,
                  visible |-> visible,
                  value |-> [nodes |-> {viewport_record(n) :
                                           n \in visible \cap DOMAIN node_data},
                             edges |-> visible_edges(visible),
                             total_nodes |-> Cardinality(DOMAIN node_data),
                             total_edges |-> Cardinality(DOMAIN edge_data),
                             viewport_nodes |-> Cardinality(visible),
                             zoom_level |-> request.zoom_level]]

\* GraphEngine.get_viewport_graph; `visible` is the handler's local node set
get_viewport_graph(request, order) ==
    LET visible == visible_nodes(request, order)
    IN /\ UNCHANGED store
       /\ ret' = [op |-> "get_viewport_graph",
                  arg |-> request,
                  visible |-> visible,
                  value |-> [nodes |-> {viewport_record(n) :
                                           n \in visible \cap DOMAIN node_data},
                             edges |-> visible_edges(visible),
                             total_nodes |-> Cardinality(DOMAIN node_data),
                             total_edges |-> Cardinality(DOMAIN edge_data),
                             viewport_nodes |-> Cardinality(visible),
                             zoom_level |-> request.zoom_level]]

\* --------------------------------------------------------------- the calls
AddNode ==
    /\ calls < MaxCalls
    /\ calls' = calls + 1
    /\ UNCHANGED net
    /\ UNCHANGED next_edge_id
    /\ \E id \in NodeIds, i \in 1..Len(NodeSamples) :
          add_node(Merge(NodeSamples[i], [id |-> id]))

RemoveNode ==
    /\ calls < MaxCalls
    /\ calls' = calls + 1
    /\ UNCHANGED net
    /\ UNCHANGED next_edge_id
    /\ \E id \in NodeIds : remove_node(id)

UpdateNode ==
    /\ calls < MaxCalls
    /\ calls' = calls + 1
    /\ UNCHANGED net
    /\ UNCHANGED next_edge_id
    /\ \E id \in NodeIds, i \in 1..Len(UpdateSamples) : update_node(id, UpdateSamples[i])

CreateEdge ==
    /\ calls < MaxCalls
    /\ next_edge_id <= MaxEdges
    /\ calls' = calls + 1
    /\ UNCHANGED net
    /\ \E s \in NodeIds, t \in NodeIds, ty \in EdgeTypeSamples :
          LET data == [source |-> s, target |-> t, edge_type |-> ty]
          IN /\ create_edge(data)
             /\ next_edge_id' = IF create_edge_status(data) = "200"
                                THEN next_edge_id + 1 ELSE next_edge_id

RemoveEdge ==
    /\ calls < MaxCalls
    /\ calls' = calls + 1
    /\ UNCHANGED net
    /\ UNCHANGED next_edge_id
    /\ \E id \in EdgeIds : remove_edge(id)

ComputeLayout ==
    /\ calls < MaxCalls
    /\ calls' = calls + 1
    /\ UNCHANGED net
    /\ UNCHANGED next_edge_id
    /\ \E pos \in spring_layout(graph) : compute_layout(pos)

Next ==
    \/ AddNode
    \/ RemoveNode
    \/ UpdateNode
    \/ CreateEdge
    \/ RemoveEdge
    \/ ComputeLayout

Spec == Init /\ [][Next]_vars

\* ---------------------------------------------------------- the discovery
\* the None a call returns in place of a node record
NodeNone == [found |-> FALSE]

\* the members of S in the order the adjacency is walked
RECURSIVE Ordered(_, _)
Ordered(S, order) ==
    IF S = {}
    THEN <<>>
    ELSE LET first == IF order = "asc" THEN SetMin(S) ELSE SetMax(S)
         IN <<first>> \o Ordered(S \ {first}, order)

\* seq[:n] of Python
Slice(seq, n) ==
    IF n >= 0
    THEN SubSeq(seq, 1, IF n < Len(seq) THEN n ELSE Len(seq))
    ELSE SubSeq(seq, 1, IF Len(seq) + n > 0 THEN Len(seq) + n ELSE 0)

\* a relationship filter that takes an edge record of any type
edge_match_any_type(current_id, neighbor_id, relationship_types) ==
    \E id \in DOMAIN edge_data :
        \/ /\ edge_data[id].source = current_id
           /\ edge_data[id].target = neighbor_id
        \/ /\ edge_data[id].source = neighbor_id
           /\ edge_data[id].target = current_id

\* the relationship filter of discover_related: some edge record between the
\* two nodes, in either direction, has one of the types
edge_match(current_id, neighbor_id, relationship_types) ==
    \E id \in DOMAIN edge_data :
        /\ \/ /\ edge_data[id].source = current_id
              /\ edge_data[id].target = neighbor_id
           \/ /\ edge_data[id].source = neighbor_id
              /\ edge_data[id].target = current_id
        /\ edge_data[id].edge_type \in relationship_types

\* a round of the neighbour loop that puts the new entry at the head of the
\* queue (a depth-first walk)
neighbor_step_depth_first(current_id, path, neighbor_id, relationship_types, st) ==
    IF neighbor_id \in st.visited
    THEN st
    ELSE IF relationship_types # {}
            /\ ~edge_match(current_id, neighbor_id, relationship_types)
    THEN st
    ELSE LET new_path == Append(path, neighbor_id)
         IN [visited |-> st.visited \cup {neighbor_id},
             related |-> Append(st.related, node_data[neighbor_id]),
             paths |-> Append(st.paths, new_path),
             queue |-> <<[id |-> neighbor_id, path |-> new_path]>> \o st.queue]

\* one round of the neighbour loop of discover_related
neighbor_step(current_id, path, neighbor_id, relationship_types, st) ==
    IF neighbor_id \in st.visited
    THEN st
    ELSE IF relationship_types # {}
            /\ ~edge_match(current_id, neighbor_id, relationship_types)
    THEN st
    ELSE LET new_path == Append(path, neighbor_id)
             stored == neighbor_id \in DOMAIN node_data
         IN [visited |-> st.visited \cup {neighbor_id},
             related |-> IF stored THEN Append(st.related, node_data[neighbor_id])
                         ELSE st.related,
             paths |-> IF stored THEN Append(st.paths, new_path) ELSE st.paths,
             queue |-> Append(st.queue, [id |-> neighbor_id, path |-> new_path])]

\* the neighbour loop of discover_related over the neighbours still to see
RECURSIVE neighbor_loop(_, _, _, _, _)
neighbor_loop(current_id, path, neighbors, relationship_types, st) ==
    IF neighbors = <<>>
    THEN st
    ELSE neighbor_loop(current_id, path, Tail(neighbors), relationship_types,
                       neighbor_step(current_id, path, Head(neighbors),
                                     relationship_types, st))

\* the depth test of discover_related on the entry taken from the queue
too_deep(path, max_depth) == Len(path) > max_depth + 1

\* the while loop of discover_related
RECURSIVE discover_loop(_, _, _, _, _)
discover_loop(st, max_depth, limit, relationship_types, order) ==
    IF st.queue = <<>> \/ Len(st.related) >= limit
    THEN st
    ELSE LET current == Head(st.queue)
             popped == [st EXCEPT !.queue = Tail(st.queue)]
         IN IF too_deep(current.path, max_depth)
            THEN discover_loop(popped, max_depth, limit, relationship_types, order)
            ELSE discover_loop(
                     neighbor_loop(current.id, current.path,
                                   Ordered(G_neighbors(graph, current.id), order),
                                   relationship_types, popped),
                     max_depth, limit, relationship_types, order)

\* a discovery that answers an unknown source like a source without relations
discover_related_empty_for_unknown(request, order) ==
    /\ UNCHANGED store
    /\ LET st == IF request.node_id \notin DOMAIN node_data
                 THEN [related |-> <<>>, paths |-> <<>>]
                 ELSE discover_loop(
                          [visited |-> {request.node_id},
                           related |-> <<>>,
                           paths |-> <<>>,
                           queue |-> <<[id |-> request.node_id,
                                        path |-> <<request.node_id>>]>>],
                          request.max_depth, request.limit,
                          request.relationship_types, order)
       IN ret' = [op |-> "discover_related", arg |-> request, ok |-> TRUE,
                  status |-> "200",
                  source_node |-> IF request.node_id \in DOMAIN node_data
                                  THEN node_data[request.node_id]
                                  ELSE NodeNone,
                  related_nodes |-> Slice(st.related, request.limit),
                  paths |-> Slice(st.paths, request.limit)]

\* GraphEngine.discover_related behind POST /api/discover: the engine returns
\* (None, [], []) for a source that is not stored and the handler answers 404
discover_related(request, order) ==
    /\ UNCHANGED store
    /\ IF request.node_id \notin DOMAIN node_data
       THEN ret' = [op |-> "discover_related", arg |-> request, ok |-> FALSE,
                    status |-> "404 Node not found",
                    source_node |-> NodeNone,
                    related_nodes |-> <<>>,
                    paths |-> <<>>]
       ELSE LET st == discover_loop(
                          [visited |-> {request.node_id},
                           related |-> <<>>,
                           paths |-> <<>>,
                           queue |-> <<[id |-> request.node_id,
                                        path |-> <<request.node_id>>]>>],
                          request.max_depth, request.limit,
                          request.relationship_types, order)
            IN ret' = [op |-> "discover_related", arg |-> request, ok |-> TRUE,
                       status |-> "200",
                       source_node |-> node_data[request.node_id],
                       related_nodes |-> Slice(st.related, request.limit),
                       paths |-> Slice(st.paths, request.limit)]

\* ------------------------------------------------------- the viewport calls
ZoomSamples == 0..2

DepthSamples == -1..MaxDepthReq

\* (center_x, center_y, width, height): a window around the origin and one
\* that holds every sample position
RectSamples ==
    {[center_x |-> 0, center_y |-> 0, width |-> 100, height |-> 100],
     [center_x |-> 250, center_y |-> 250, width |-> 600, height |-> 600]}

ViewportRequest(zoom, center, depth, rect) ==
    [zoom_level |-> zoom, center_node_id |-> center, max_depth |-> depth,
     center_x |-> rect.center_x, center_y |-> rect.center_y,
     width |-> rect.width, height |-> rect.height]

\* POST /api/graph/viewport with a center drawn from `centers`
ViewportCall(centers) ==
    /\ calls < MaxCalls
    /\ calls' = calls + 1
    /\ UNCHANGED net
    /\ UNCHANGED next_edge_id
    /\ \E zoom \in ZoomSamples, center \in centers, depth \in DepthSamples,
          rect \in RectSamples, order \in SetOrders :
          get_viewport_graph(ViewportRequest(zoom, center, depth, rect), order)

\* no center, a stored node, or an id the store may not hold
CenterChoices == {NoId} \cup {<<n>> : n \in {0} \cup NodeIds \cup DOMAIN node_data}

Viewport == ViewportCall(CenterChoices)

NextView ==
    \/ Next
    \/ Viewport

\* the store under its operations, with viewport queries against it
SpecView == Init /\ [][NextView]_vars

\* ----------------------------------------------------------- loaded stores
\* a node as the generator makes it: no skills, sector or location, at the origin
NodeRecord(id, type) ==
    [node_type |-> type, skills |-> {}, sector |-> None, location |-> None,
     x |-> 0, y |-> 0, id |-> id]

EdgeRecord(source, target, type) ==
    [source |-> source, target |-> target, edge_type |-> type]

\* The store after add_node for each record of `nodes`, then add_edge for each
\* record of `edges` (from_dict on a new engine; the generator's run): the last
\* record of an id is the stored one, every add leaves its index entries, the
\* edges get their ids in order; `done` calls count as made.
LoadedAt(nodes, edges, done) ==
    LET ids == {nodes[i].id : i \in DOMAIN nodes}
        last(n) == CHOOSE i \in DOMAIN nodes :
                      /\ nodes[i].id = n
                      /\ \A j \in DOMAIN nodes : j > i => nodes[j].id # n
    IN /\ graph = [nodes |-> ids \cup {edges[i].source : i \in DOMAIN edges}
                                 \cup {edges[i].target : i \in DOMAIN edges},
                   edges |-> {{edges[i].source, edges[i].target} : i \in DOMAIN edges}]
       /\ node_data = [n \in ids |-> nodes[last(n)]]
       /\ edge_data = [i \in DOMAIN edges |-> Merge(edges[i], [id |-> i])]
       /\ nodes_by_type =
             [t \in NodeTypeValues |->
                 {nodes[i].id : i \in {j \in DOMAIN nodes : nodes[j].node_type = t}}]
       /\ nodes_by_skill =
             [k \in SkillKeys |->
                 {nodes[i].id : i \in {j \in DOMAIN nodes :
                                          k \in SkillKeysOf(nodes[j].skills)}}]
       /\ nodes_by_sector =
             [k \in SectorKeys |->
                 {nodes[i].id : i \in {j \in DOMAIN nodes :
                                          k \in AttrKeys(nodes[j].sector)}}]
       /\ nodes_by_location =
             [k \in LocationKeys |->
                 {nodes[i].id : i \in {j \in DOMAIN nodes :
                                          k \in AttrKeys(nodes[j].location)}}]
       /\ layouts = <<>>
       /\ bounds = [min_x |-> 0, max_x |-> 1000, min_y |-> 0, max_y |-> 1000]
       /\ next_edge_id = Len(edges) + 1
       /\ ret = [op |-> "init"]
       /\ calls = done
       /\ NetInit

\* the loaded store with one more call to follow
Loaded(nodes, edges) == LoadedAt(nodes, edges, MaxCalls - 1)

\* ------------------------------------------------------------ large stores
\* more coarse nodes than a viewport may return
ManyBlobs == [i \in 1..(MaxViewportNodes + Excess) |-> NodeRecord(i, "Blob")]

\* a blob with more individuals around it than the overview tier may add, and
\* one more node that was first added as a blob and then as an individual
StarSize == MaxIndividuals + Excess

StarNodes ==
    [i \in 1..(StarSize + 3) |->
        IF i = 1 THEN NodeRecord(1, "Blob")
        ELSE IF i <= StarSize + 1 THEN NodeRecord(i, "Individual")
        ELSE IF i = StarSize + 2 THEN NodeRecord(StarSize + 2, "Blob")
        ELSE NodeRecord(StarSize + 2, "Individual")]

StarEdges == [i \in 1..StarSize |-> EdgeRecord(1, i + 1, "member_of")]

InitLarge ==
    \/ Loaded(ManyBlobs, <<>>)
    \/ Loaded(StarNodes, StarEdges)

\* the queries against a large store: no center, the first node, an unknown id
ViewportLarge == ViewportCall({NoId, <<1>>, <<0>>})

SpecLarge == InitLarge /\ [][ViewportLarge]_vars

\* ------------------------------------------------------------ small graphs
\* the type of node i: blobs among individuals
GraphNodeType(i) == IF i % 3 = 0 THEN "Blob" ELSE "Individual"

GraphNodeList == [i \in 1..GraphNodes |-> NodeRecord(i, GraphNodeType(i))]

\* the edges a small graph is drawn from, in the order they are added: an edge
\* against the path, the path 1 - 2 - ... , a chord, a self-loop and the edge
\* that closes the cycle
GraphEdgeList ==
    <<EdgeRecord(3, 2, "works_on")>>
    \o [i \in 1..(GraphNodes - 1) |-> EdgeRecord(i, i + 1, "peer")]
    \o <<EdgeRecord(1, 3, "member_of"),
         EdgeRecord(3, 3, "collaborates"),
         EdgeRecord(GraphNodes, 1, "peer")>>

\* the records of GraphEdgeList at the places in `chosen`, in their order
EdgesChosen(chosen) ==
    [i \in 1..Cardinality(chosen) |->
        GraphEdgeList[CHOOSE k \in chosen : Cardinality({j \in chosen : j <= k}) = i]]

InitGraph ==
    \E chosen \in SUBSET (1..Len(GraphEdgeList)) :
        Loaded(GraphNodeList, EdgesChosen(chosen))

\* the relationship_types of a request: none, or the one type
TypeFilters == {{}, {"peer"}}

\* POST /api/discover
Discover ==
    /\ calls < MaxCalls
    /\ calls' = calls + 1
    /\ UNCHANGED net
    /\ UNCHANGED next_edge_id
    /\ \E id \in {0} \cup DOMAIN node_data, depth \in 0..MaxDepthCap,
          limit \in 0..MaxLimit, types \in TypeFilters, order \in SetOrders :
          discover_related([node_id |-> id, max_depth |-> depth, limit |-> limit,
                            relationship_types |-> types], order)

NextGraph ==
    \/ Viewport
    \/ Discover

\* the queries against each small graph
SpecGraph == InitGraph /\ [][NextGraph]_vars

\* ------------------------------------------------------ similarity and search
\* dict.get(key) as an Optional: <<>> for None, a missing key included
Get(node, key) == IF key \in DOMAIN node THEN <<node[key]>> ELSE <<>>

\* the characters of the strings a location is searched with
Chars(s) ==
    CASE s = "paris" -> <<"p", "a", "r", "i", "s">>
      [] s = "lyon" -> <<"l", "y", "o", "n">>
      [] s = "ar" -> <<"a", "r">>
      [] OTHER -> <<s>>

\* Python's `sub in s` on strings
IsSubstring(sub, s) ==
    \E i \in 1..(Len(Chars(s)) - Len(Chars(sub)) + 1) :
        SubSeq(Chars(s), i, i + Len(Chars(sub)) - 1) = Chars(sub)

\* the score loop without its test of the node type
all_others(node_id, keys) ==
    LET other(nid) == nid # node_id
    IN SelectSeq(keys, other)

\* the candidates the score loop of get_similar_nodes does not skip: the stored
\* nodes of the source's type, the source left out, in the order of node_data
same_type_others(node_id, keys) ==
    LET other(nid) == /\ nid # node_id
                      /\ node_data[nid].node_type = node_data[node_id].node_type
    IN SelectSeq(keys, other)

\* str.lower() on a None sector raises AttributeError: on the source's sector
\* before the loop, on a candidate's sector when the source's sector is truthy
sector_raises(node_id, keys) ==
    \/ node_data[node_id].sector = None
    \/ /\ Truthy(Lower(node_data[node_id].sector))
       /\ \E i \in DOMAIN same_type_others(node_id, keys) :
             node_data[same_type_others(node_id, keys)[i]].sector = None

\* the score of a candidate: 2 for each shared skill, 3 for the same lower-cased
\* sector, 1 for the same location
similarity_score(source, node) ==
    (IF source.skills # {} /\ node.skills # {}
     THEN Cardinality(source.skills \cap node.skills) * 2 ELSE 0)
    + (IF Truthy(Lower(source.sector)) /\ Lower(node.sector) = Lower(source.sector)
       THEN 3 ELSE 0)
    + (IF Truthy(source.location) /\ source.location = node.location
       THEN 1 ELSE 0)

\* a sort that leaves the list as it is
sort_by_score_none(scored) == scored

RECURSIVE scores_from(_, _)
scores_from(scored, v) ==
    IF v < 1
    THEN <<>>
    ELSE LET has(e) == e.score = v
         IN SelectSeq(scored, has) \o scores_from(scored, v - 1)

\* list.sort(key=-score): descending, stable
sort_by_score(scored) ==
    scores_from(scored, SetMax({0} \cup {scored[i].score : i \in DOMAIN scored}))

\* GraphEngine.get_similar_nodes behind GET /api/discover/similar/{node_id};
\* `keys` is node_data in its insertion order
get_similar_nodes(node_id, limit, keys) ==
    /\ UNCHANGED store
    /\ IF node_id \notin DOMAIN node_data
       THEN ret' = [op |-> "get_similar_nodes", arg |-> node_id, limit |-> limit,
                    ok |-> FALSE, status |-> "404 Node not found"]
       ELSE IF sector_raises(node_id, keys)
       THEN ret' = [op |-> "get_similar_nodes", arg |-> node_id, limit |-> limit,
                    ok |-> FALSE, status |-> "500 AttributeError"]
       ELSE LET source == node_data[node_id]
                others == same_type_others(node_id, keys)
                all == [i \in DOMAIN others |->
                           [score |-> similarity_score(source, node_data[others[i]]),
                            id |-> others[i]]]
                positive(e) == e.score > 0
                scored == sort_by_score(SelectSeq(all, positive))
            IN ret' = [op |-> "get_similar_nodes", arg |-> node_id,
                       limit |-> limit, ok |-> TRUE, status |-> "200",
                       scored |-> scored,
                       similar_nodes |->
                           [i \in DOMAIN Slice(scored, limit) |->
                               node_data[scored[i].id]]]

\* an availability test that is made on nodes of every type
availability_skips_any_type(node, availability) ==
    /\ availability # <<>>
    /\ Get(node, "availability") # availability

\* the availability filter of search: made on Individual nodes only
availability_skips(node, availability) ==
    /\ availability # <<>>
    /\ node.node_type = "Individual"
    /\ Get(node, "availability") # availability

\* the candidates of search: node_data cut down by each supplied criterion
\* through the indices
search_candidates(request) ==
    LET all == DOMAIN node_data
        by_type ==
            IF request.node_types # {}
            THEN all \cap UNION {nodes_by_type[nt] : nt \in request.node_types}
            ELSE all
        by_skill ==
            IF request.skills # {}
            THEN by_type \cap
                 UNION {IF Lower(s) \in DOMAIN nodes_by_skill
                        THEN nodes_by_skill[Lower(s)] ELSE {} : s \in request.skills}
            ELSE by_type
        by_sector ==
            IF Truthy(request.sector)
            THEN by_skill \cap
                 (IF Lower(request.sector) \in DOMAIN nodes_by_sector
                  THEN nodes_by_sector[Lower(request.sector)] ELSE {})
            ELSE by_skill
    IN IF Truthy(request.location)
       THEN by_sector \cap
            UNION {nodes_by_location[k] :
                      k \in {loc_key \in DOMAIN nodes_by_location :
                                IsSubstring(Lower(request.location), loc_key)}}
       ELSE by_sector

\* the result loop of search: a candidate that passes is appended, and the loop
\* ends once the list is as long as the limit
RECURSIVE search_loop(_, _, _)
search_loop(ids, results, request) ==
    IF ids = <<>>
    THEN results
    ELSE IF availability_skips(node_data[Head(ids)], request.availability)
    THEN search_loop(Tail(ids), results, request)
    ELSE LET taken == Append(results, node_data[Head(ids)])
         IN IF Len(taken) >= request.limit
            THEN taken
            ELSE search_loop(Tail(ids), taken, request)

\* GraphEngine.search behind POST /api/search, for a request without a text
\* query and without size limits; `order` is the iteration order of the
\* candidate set
search(request, order) ==
    /\ UNCHANGED store
    /\ ret' = [op |-> "search", arg |-> request,
               nodes |-> search_loop(Ordered(search_candidates(request), order),
                                     <<>>, request)]

\* -------------------------------------------------------- the people stores
\* the nodes a small store is made of: individuals that share skills, sectors
\* (in two spellings) and locations to different degrees, one without sector
\* and location, and blobs, which carry no availability
PersonTable ==
    << [node_type |-> "Individual", skills |-> {"Go", "Rust"}, sector |-> "Tech",
        location |-> "Paris", availability |-> TRUE, x |-> 0, y |-> 0],
       [node_type |-> "Individual", skills |-> {"Go"}, sector |-> "tech",
        location |-> "Lyon", availability |-> FALSE, x |-> 0, y |-> 0],
       [node_type |-> "Individual", skills |-> {"go"}, sector |-> "Fin",
        location |-> "Paris", availability |-> TRUE, x |-> 0, y |-> 0],
       [node_type |-> "Blob", skills |-> {}, sector |-> "Tech",
        location |-> "Paris", x |-> 0, y |-> 0],
       [node_type |-> "Individual", skills |-> {"Rust", "Go"}, sector |-> "Tech",
        location |-> "Paris", availability |-> FALSE, x |-> 0, y |-> 0],
       [node_type |-> "Individual", skills |-> {"Go"}, sector |-> None,
        location |-> None, availability |-> TRUE, x |-> 0, y |-> 0],
       [node_type |-> "Blob", skills |-> {}, sector |-> "tech",
        location |-> "Lyon", x |-> 0, y |-> 0] >>

Person(i) == Merge(PersonTable[((i - 1) % Len(PersonTable)) + 1], [id |-> i])

\* the chosen people, loaded in the order of their ids
PeopleChosen(chosen) ==
    LET ids == Ordered(chosen, "asc")
    IN [i \in DOMAIN ids |-> Person(ids[i])]

InitPeople == \E chosen \in SUBSET (1..PeopleCount) : Loaded(PeopleChosen(chosen), <<>>)

\* SearchRequest with its criteria; no text query, no size limits
SearchRequest(types, skills, sector, location, availability, limit) ==
    [node_types |-> types, skills |-> skills, sector |-> sector,
     location |-> location, availability |-> availability, limit |-> limit]

TypeQueries == {{}, {"Individual"}, {"Blob", "Project"}}
SkillQueries == {{}, {"Go"}, {"go", "Rust"}}
SectorQueries == {None, "Tech"}
LocationQueries == {None, "ar", "Lyon"}
AvailabilityQueries == {<<>>, <<TRUE>>, <<FALSE>>}
SearchLimits == (0..MaxSearchLimit) \cup {PeopleCount}

\* POST /api/search
Search ==
    /\ calls < MaxCalls
    /\ calls' = calls + 1
    /\ UNCHANGED net
    /\ UNCHANGED next_edge_id
    /\ \E types \in TypeQueries, skills \in SkillQueries, sector \in SectorQueries,
          location \in LocationQueries, availability \in AvailabilityQueries,
          limit \in SearchLimits, order \in SetOrders :
          search(SearchRequest(types, skills, sector, location, availability,
                               limit), order)

\* GET /api/discover/similar/{node_id}, the limit within its validated range;
\* the stores it is called on hold their nodes in the order of the ids
Similar ==
    /\ calls < MaxCalls
    /\ calls' = calls + 1
    /\ UNCHANGED net
    /\ UNCHANGED next_edge_id
    /\ \E id \in {0} \cup DOMAIN node_data, limit \in 1..MaxLimit :
          get_similar_nodes(id, limit, Ordered(DOMAIN node_data, "asc"))

NextPeople ==
    \/ Search
    \/ Similar

\* search and similarity against each small store of people
SpecPeople == InitPeople /\ [][NextPeople]_vars

\* POST /api/search by skills alone
SearchSkills ==
    /\ calls < MaxCalls
    /\ calls' = calls + 1
    /\ UNCHANGED net
    /\ UNCHANGED next_edge_id
    /\ \E skills \in SkillQueries \ {{}}, order \in SetOrders :
          search(SearchRequest({}, skills, None, None, <<>>, MaxNodes), order)

NextFind ==
    \/ Next
    \/ SearchSkills

\* the store under its operations, with searches by skill against it
SpecFind == Init /\ [][NextFind]_vars

\* ------------------------------------------------------ the generated store
\* what the generator makes: one aggregated company (id 1), its blobs, then
\* the individuals, each a member of the blobs `assign` gives it
AggregatedId == 1
ChildBlobIds == 2..(ChildBlobCount + 1)
MemberIds == (ChildBlobCount + 2)..(ChildBlobCount + MemberCount + 1)

\* the member_of edges of the generator add 1 to the blob's member_count each
generated_member_count(blob_id, assign) ==
    Cardinality({i \in DOMAIN assign : blob_id \in assign[i]})

\* the total of an aggregate: the member_count of each listed child, added up
RECURSIVE generated_total(_, _)
generated_total(child_blob_ids, assign) ==
    IF child_blob_ids = <<>>
    THEN 0
    ELSE generated_member_count(Head(child_blob_ids), assign)
         + generated_total(Tail(child_blob_ids), assign)

AggregatedRecord(id, child_blob_ids, total) ==
    [node_type |-> "Aggregated", skills |-> {}, sector |-> "Tech",
     location |-> "Paris", child_blob_ids |-> child_blob_ids,
     total_member_count |-> total, x |-> 0, y |-> 0, id |-> id]

BlobRecord(id, parent, sector, location, member_count) ==
    [node_type |-> "Blob", skills |-> {}, sector |-> sector,
     location |-> location, member_count |-> member_count,
     parent_aggregated_id |-> parent, x |-> 0, y |-> 0, id |-> id]

IndividualRecord(id, sector, blob_memberships) ==
    [node_type |-> "Individual", skills |-> {"Go"}, sector |-> sector,
     location |-> "Paris", availability |-> TRUE,
     blob_memberships |-> blob_memberships, x |-> 0, y |-> 0, id |-> id]

GeneratedNodes(assign) ==
    LET children == Ordered(ChildBlobIds, "asc")
        members == Ordered(MemberIds, "asc")
    IN <<AggregatedRecord(AggregatedId, children,
                          generated_total(children, assign))>>
       \o [i \in DOMAIN children |->
              BlobRecord(children[i], <<AggregatedId>>, "Tech", "Paris",
                         generated_member_count(children[i], assign))]
       \o [i \in DOMAIN members |->
              IndividualRecord(members[i], "Tech",
                               Ordered(assign[members[i]], "asc"))]

RECURSIVE MemberEdges(_, _)
MemberEdges(members, assign) ==
    IF members = <<>>
    THEN <<>>
    ELSE LET blobs == Ordered(assign[Head(members)], "asc")
         IN [i \in DOMAIN blobs |-> EdgeRecord(Head(members), blobs[i], "member_of")]
            \o MemberEdges(Tail(members), assign)

GeneratedEdges(assign) ==
    LET children == Ordered(ChildBlobIds, "asc")
    IN [i \in DOMAIN children |-> EdgeRecord(AggregatedId, children[i], "contains")]
       \o MemberEdges(Ordered(MemberIds, "asc"), assign)

\* each individual is made a member of 1 to 3 of the blobs
InitMembers ==
    \E assign \in [MemberIds -> {B \in SUBSET ChildBlobIds :
                                    Cardinality(B) \in 1..3}] :
        LoadedAt(GeneratedNodes(assign), GeneratedEdges(assign), MaxCalls - 2)

\* the id of the node the next create call makes (a fresh uuid)
NewId == ChildBlobCount + MemberCount + 2 + calls

\* POST /api/nodes/blob: the record starts with member_count 0, and the parent
\* it names is not touched
CreateBlob ==
    /\ calls < MaxCalls
    /\ calls' = calls + 1
    /\ UNCHANGED net
    /\ UNCHANGED next_edge_id
    /\ \E parent \in {NoId, <<AggregatedId>>} :
          add_node(BlobRecord(NewId, parent, None, None, 0))

\* POST /api/nodes/individual
CreateIndividual ==
    /\ calls < MaxCalls
    /\ calls' = calls + 1
    /\ UNCHANGED net
    /\ UNCHANGED next_edge_id
    /\ add_node(IndividualRecord(NewId, None, <<>>))

\* DELETE /api/nodes/{node_id}
DeleteNode ==
    /\ calls < MaxCalls
    /\ calls' = calls + 1
    /\ UNCHANGED net
    /\ UNCHANGED next_edge_id
    /\ \E id \in {0} \cup DOMAIN node_data : remove_node(id)

\* POST /api/edges with the type member_of
CreateMemberEdge ==
    /\ calls < MaxCalls
    /\ calls' = calls + 1
    /\ UNCHANGED net
    /\ \E s \in {0} \cup DOMAIN node_data, t \in {0} \cup DOMAIN node_data :
          LET data == [source |-> s, target |-> t, edge_type |-> "member_of"]
          IN /\ create_edge(data)
             /\ next_edge_id' = IF create_edge_status(data) = "200"
                                THEN next_edge_id + 1 ELSE next_edge_id

NextMembers ==
    \/ CreateBlob
    \/ CreateIndividual
    \/ DeleteNode
    \/ CreateMemberEdge

\* the generated store under the create and delete calls of the API
SpecMembers == InitMembers /\ [][NextMembers]_vars

\* ------------------------------------------------------- the laid-out stores
\* a window that holds every sample position
WholeRect == [center_x |-> 250, center_y |-> 250, width |-> 600, height |-> 600]

\* POST /api/graph/viewport without a center, over the whole plane
ViewportWhole ==
    /\ calls < MaxCalls
    /\ calls' = calls + 1
    /\ UNCHANGED net
    /\ UNCHANGED next_edge_id
    /\ \E zoom \in ZoomSamples, order \in SetOrders :
          get_viewport_graph(ViewportRequest(zoom, NoId, MaxDepthCap, WholeRect),
                             order)

\* a few blobs, three calls to follow
InitLayout ==
    \E chosen \in SUBSET NodeIds :
        LET ids == Ordered(chosen, "asc")
        IN LoadedAt([i \in DOMAIN ids |-> NodeRecord(ids[i], "Blob")], <<>>,
                    MaxCalls - 3)

NextLayout ==
    \/ AddNode
    \/ ComputeLayout
    \/ ViewportWhole

\* small stores that are laid out, written to again and looked at
SpecLayout == InitLayout /\ [][NextLayout]_vars

\* the edge operations on the small stores of blobs
NextEdges ==
    \/ CreateEdge
    \/ RemoveEdge
    \/ RemoveNode

SpecEdges == InitLayout /\ [][NextEdges]_vars

\* ---------------------------------------------------------- the query calls
\* GET /api/nodes/{node_id}: the record, or 404
get_node_route(node_id) ==
    /\ UNCHANGED store
    /\ ret' = IF get_node(node_id).found
              THEN [op |-> "get_node", id |-> node_id, ok |-> TRUE,
                    status |-> "200", value |-> get_node(node_id).node]
              ELSE [op |-> "get_node", id |-> node_id, ok |-> FALSE,
                    status |-> "404 Node not found"]

\* GET /api/discover/neighbors/{node_id}: the stored records of the nodes
\* within `depth` hops, the center among them
get_neighbors(node_id, depth) ==
    /\ UNCHANGED store
    /\ ret' = IF node_id \notin DOMAIN node_data
              THEN [op |-> "get_neighbors", id |-> node_id, ok |-> FALSE,
                    status |-> "404 Node not found"]
              ELSE LET neighbor_ids == _get_neighbors_bfs(node_id, depth)
                       neighbors == {node_data[n] :
                                        n \in neighbor_ids \cap DOMAIN node_data}
                   IN [op |-> "get_neighbors", id |-> node_id, ok |-> TRUE,
                       status |-> "200", depth |-> depth,
                       neighbors |-> neighbors,
                       count |-> Cardinality(neighbors)]

GetNode ==
    /\ calls < MaxCalls
    /\ calls' = calls + 1
    /\ UNCHANGED net
    /\ UNCHANGED next_edge_id
    /\ \E id \in {0} \cup DOMAIN node_data : get_node_route(id)

\* the depth within its validated range of 1..3
Neighbors ==
    /\ calls < MaxCalls
    /\ calls' = calls + 1
    /\ UNCHANGED net
    /\ UNCHANGED next_edge_id
    /\ \E id \in {0} \cup DOMAIN node_data, depth \in 1..MaxDepthCap :
          get_neighbors(id, depth)

\* POST /api/discover as far and for as many nodes as a request asks
DiscoverFar ==
    /\ calls < MaxCalls
    /\ calls' = calls + 1
    /\ UNCHANGED net
    /\ UNCHANGED next_edge_id
    /\ \E id \in {0} \cup DOMAIN node_data, order \in SetOrders :
          discover_related([node_id |-> id, max_depth |-> MaxDepthCap,
                            limit |-> MaxLimit, relationship_types |-> {}], order)

NextQueries ==
    \/ AddNode
    \/ CreateEdge
    \/ ComputeLayout
    \/ GetNode
    \/ ViewportWhole
    \/ SearchSkills
    \/ DiscoverFar
    \/ Similar
    \/ Neighbors

\* small stores that are written to and then queried
SpecQueries == InitLayout /\ [][NextQueries]_vars

\* ------------------------------------------- the websockets and broadcasts
\* The handlers are coroutines of one event loop: what a handler does between
\* two awaits is one step, and at an await the other handlers take their turn.

Range(seq) == {seq[i] : i \in DOMAIN seq}

\* list.remove
Remove(seq, v) == SelectSeq(seq, LAMBDA w : w # v)

\* ConnectionManager.connect, from websocket_graph: accept, then append
connect(ws) ==
    /\ sockets[ws] = "new"
    /\ sockets' = [sockets EXCEPT ![ws] = "open"]
    /\ active_connections' = Append(active_connections, ws)
    /\ UNCHANGED <<requests, received>>

\* ConnectionManager.disconnect, from the except clauses of websocket_graph,
\* where receive_json has raised for the peer that left
disconnect(ws) ==
    /\ sockets[ws] = "gone"
    /\ sockets' = [sockets EXCEPT ![ws] = "closed"]
    /\ active_connections' = Remove(active_connections, ws)
    /\ UNCHANGED <<requests, received>>

\* The request r of a handler inside ConnectionManager.broadcast, at the top of
\* its loop: the list iterator holds the index r.i into the list as the list
\* is now; it ends past the end of the list, or takes the element at the
\* index and awaits send_json to it.  A send to a websocket whose peer has left
\* raises; the exception is logged.  A delivered message is tagged with the
\* request that sent it.
broadcast_loop(t, r) ==
    IF r.i >= Len(active_connections)
    THEN /\ requests' = [requests EXCEPT ![t] = [r EXCEPT !.pc = "done"]]
         /\ UNCHANGED received
    ELSE LET connection == active_connections[r.i + 1]
             delivered == sockets[connection] = "open"
         IN /\ requests' =
                  [requests EXCEPT ![t] =
                      [r EXCEPT !.i = r.i + 1,
                                !.failed = IF delivered THEN @ ELSE @ \cup {connection}]]
            /\ received' =
                  IF delivered
                  THEN [received EXCEPT ![connection] =
                           Append(@, [request |-> t, message |-> r.message])]
                  ELSE received

\* ConnectionManager.broadcast as a handler calls it: the loop starts in the
\* handler's own step; `start` keeps the list as it was then
broadcast(t, message) ==
    broadcast_loop(t, [pc |-> "sending", status |-> "200", message |-> message,
                       i |-> 0, start |-> active_connections, failed |-> {}])

\* a handler that raises HTTPException before it broadcasts
raise_not_found(t) ==
    /\ requests' = [requests EXCEPT ![t] = [pc |-> "done", status |-> "404"]]
    /\ UNCHANGED received

\* the requests are numbered in the order their handlers start
IsNext(t) ==
    /\ requests[t].pc = "idle"
    /\ \A u \in Requests : u < t => requests[u].pc # "idle"

\* the uuid4 of the node that request t creates: an id that no node has had
RequestNodeId(t) == MaxNodes + t

\* the handlers create_individual, create_blob and create_project: add_node,
\* then the broadcast
create_node_request(t, nd) ==
    /\ IsNext(t)
    /\ add_node(nd)
    /\ broadcast(t, [type |-> "node_created", node |-> nd])

\* delete_node with the broadcast made before the result is looked at
delete_node_request_always_broadcasts(t, node_id) ==
    /\ IsNext(t)
    /\ remove_node(node_id)
    /\ broadcast(t, [type |-> "node_deleted", node_id |-> node_id])

\* the handler delete_node: remove_node, 404 when it did not succeed, else the
\* broadcast
delete_node_request(t, node_id) ==
    /\ IsNext(t)
    /\ remove_node(node_id)
    /\ IF node_id \in DOMAIN node_data
       THEN broadcast(t, [type |-> "node_deleted", node_id |-> node_id])
       ELSE raise_not_found(t)

\* create_edge that gives the other handlers a turn between its checks and
\* add_edge
create_edge_request_yields(t, data) ==
    IF requests[t].pc = "checked"
    THEN LET ed == Merge(requests[t].data, [id |-> next_edge_id])
         IN /\ add_edge(ed)
            /\ UNCHANGED <<node_data, indices, layouts, bounds>>
            /\ ret' = [op |-> "create_edge", arg |-> requests[t].data, ok |-> TRUE,
                       status |-> "200", value |-> ed,
                       broadcast |-> [type |-> "edge_created", edge |-> ed]]
            /\ next_edge_id' = next_edge_id + 1
            /\ broadcast(t, [type |-> "edge_created", edge |-> ed])
    ELSE /\ IsNext(t)
         /\ UNCHANGED <<store, next_edge_id>>
         /\ ret' = [op |-> "create_edge_checks", arg |-> data]
         /\ UNCHANGED received
         /\ requests' = [requests EXCEPT ![t] =
                            IF create_edge_status(data) = "200"
                            THEN [pc |-> "checked", data |-> data]
                            ELSE [pc |-> "done", status |-> "404"]]

\* the handler create_edge: the checks and add_edge with no await between
\* them, then the broadcast
create_edge_request(t, data) ==
    /\ IsNext(t)
    /\ create_edge(data)
    /\ IF create_edge_status(data) = "200"
       THEN /\ next_edge_id' = next_edge_id + 1
            /\ broadcast(t, [type |-> "edge_created",
                             edge |-> Merge(data, [id |-> next_edge_id])])
       ELSE /\ UNCHANGED next_edge_id
            /\ raise_not_found(t)

\* a websocket client connects; the clients are numbered in that order
Connect ==
    /\ calls < MaxCalls
    /\ calls' = calls + 1
    /\ UNCHANGED <<store, next_edge_id, ret>>
    /\ \E ws \in Sockets :
          /\ \A other \in Sockets : other < ws => sockets[other] # "new"
          /\ connect(ws)

\* the peer of a connected websocket goes away
PeerLeaves ==
    /\ UNCHANGED <<store, next_edge_id, ret, calls, active_connections, requests, received>>
    /\ \E ws \in Sockets :
          /\ sockets[ws] = "open"
          /\ sockets' = [sockets EXCEPT ![ws] = "gone"]

\* websocket_graph comes back from receive_json with WebSocketDisconnect
Disconnect ==
    /\ UNCHANGED <<store, next_edge_id, ret, calls>>
    /\ \E ws \in Sockets : disconnect(ws)

\* a broadcast comes back from its await
BroadcastNext ==
    /\ UNCHANGED <<store, next_edge_id, ret, calls, active_connections, sockets>>
    /\ \E t \in Requests :
          /\ requests[t].pc = "sending"
          /\ broadcast_loop(t, requests[t])

\* POST /api/nodes/individual, /api/nodes/blob, /api/nodes/project
CreateNodeRequest ==
    /\ calls < MaxCalls
    /\ calls' = calls + 1
    /\ UNCHANGED <<next_edge_id, active_connections, sockets>>
    /\ \E t \in Requests : create_node_request(t, NodeRecord(RequestNodeId(t), "Individual"))

\* DELETE /api/nodes/{node_id}, of a node that is stored or was
DeleteNodeRequest ==
    /\ calls < MaxCalls
    /\ calls' = calls + 1
    /\ UNCHANGED <<next_edge_id, active_connections, sockets>>
    /\ \E t \in Requests, id \in NodeIds : delete_node_request(t, id)

\* POST /api/edges, between nodes that are stored or were
CreateEdgeRequest ==
    /\ calls < MaxCalls
    /\ next_edge_id <= MaxEdges
    /\ calls' = calls + 1
    /\ UNCHANGED <<active_connections, sockets>>
    /\ \E t \in Requests, s \in NodeIds, u \in NodeIds :
          /\ s < u
          /\ create_edge_request(t, [source |-> s, target |-> u, edge_type |-> "peer"])

\* a store of two nodes, no client connected, no request made
InitServing ==
    LoadedAt(<<NodeRecord(1, "Blob"), NodeRecord(2, "Individual")>>, <<>>, 0)

NextServing ==
    \/ Connect
    \/ PeerLeaves
    \/ Disconnect
    \/ BroadcastNext
    \/ CreateNodeRequest
    \/ DeleteNodeRequest
    \/ CreateEdgeRequest

\* mutation requests and websocket clients on the one event loop
SpecServing == InitServing /\ [][NextServing]_vars

\* ================================================================ the claims
\* what a stored record holds, as index keys
TypeKeysOf(rec) == {rec.node_type}

RecordSkillKeys(rec) == SkillKeysOf(rec.skills)

RecordSectorKeys(rec) == AttrKeys(rec.sector)

RecordLocationKeys(rec) == AttrKeys(rec.location)

\* every id that some index set holds
IndexedIds ==
    UNION ({nodes_by_type[k] : k \in DOMAIN nodes_by_type}
           \cup {nodes_by_skill[k] : k \in DOMAIN nodes_by_skill}
           \cup {nodes_by_sector[k] : k \in DOMAIN nodes_by_sector}
           \cup {nodes_by_location[k] : k \in DOMAIN nodes_by_location})

\* the last call, by operation and outcome
Called(op) == ret.op = op

Succeeded(op) == ret.op = op /\ ret.ok

\* C1: no index set (by type, skill, sector, location) holds a node id that
\* is absent from node_data.
C1_NoDanglingIndexEntry == IndexedIds \subseteq DOMAIN node_data

\* C2: for every stored node and every indexed attribute, the node is in the
\* index set of key k exactly when its stored record holds a value whose
\* lower-cased form is k.
C2_IndexMatchesRecord ==
    \A n \in DOMAIN node_data :
        LET rec == node_data[n]
        IN /\ \A k \in DOMAIN nodes_by_type :
                 n \in nodes_by_type[k] <=> k \in TypeKeysOf(rec)
           /\ \A k \in DOMAIN nodes_by_skill :
                 n \in nodes_by_skill[k] <=> k \in RecordSkillKeys(rec)
           /\ \A k \in DOMAIN nodes_by_sector :
                 n \in nodes_by_sector[k] <=> k \in RecordSectorKeys(rec)
           /\ \A k \in DOMAIN nodes_by_location :
                 n \in nodes_by_location[k] <=> k \in RecordLocationKeys(rec)

\* C3: after update_node(N, U) succeeds, N is in the index set of every new
\* value of the attributes U supplies, and in the index set of no value U
\* superseded (a key the old record held and the new one does not).
C3_UpdateReindexes ==
    [][ (ret'.op = "update_node" /\ ret'.ok) =>
          LET n == ret'.id
              u == ret'.arg
              old == node_data[n]
              new == node_data'[n]
          IN /\ "skills" \in DOMAIN u =>
                  /\ \A k \in RecordSkillKeys(new) : n \in nodes_by_skill'[k]
                  /\ \A k \in RecordSkillKeys(old) \ RecordSkillKeys(new) :
                        n \notin nodes_by_skill'[k]
             /\ "sector" \in DOMAIN u =>
                  /\ \A k \in RecordSectorKeys(new) : n \in nodes_by_sector'[k]
                  /\ \A k \in RecordSectorKeys(old) \ RecordSectorKeys(new) :
                        n \notin nodes_by_sector'[k]
             /\ "location" \in DOMAIN u =>
                  /\ \A k \in RecordLocationKeys(new) : n \in nodes_by_location'[k]
                  /\ \A k \in RecordLocationKeys(old) \ RecordLocationKeys(new) :
                        n \notin nodes_by_location'[k]
      ]_vars

\* C4: remove_node(N) on a stored node returns a count equal to N's degree
\* before the removal, which is the number of edge records with N as source
\* or target (the records the call deletes).
C4_RemoveCountsDeletedEdges ==
    [][ (ret'.op = "remove_node" /\ ret'.ok) =>
          /\ ret'.value = G_degree(graph, ret'.id)
          /\ ret'.value = Cardinality(
                {e \in DOMAIN edge_data :
                    edge_data[e].source = ret'.id \/ edge_data[e].target = ret'.id})
          /\ ret'.value = Cardinality(DOMAIN edge_data) - Cardinality(DOMAIN edge_data')
      ]_vars

\* C5: after remove_node(N) succeeded, N is in neither node_data nor the
\* graph, no graph edge touches N and no edge record has N as source or target.
C5_RemovedNodeIsGone ==
    Succeeded("remove_node") =>
        /\ ret.id \notin DOMAIN node_data
        /\ ret.id \notin graph.nodes
        /\ \A e \in graph.edges : ret.id \notin e
        /\ \A e \in DOMAIN edge_data :
              edge_data[e].source # ret.id /\ edge_data[e].target # ret.id

\* a successful remove_node that returned a positive count, a node remaining
C5_Witness ==
    /\ Succeeded("remove_node")
    /\ ret.value > 0
    /\ DOMAIN node_data # {}

\* C6: remove_node and update_node with an id that is not in node_data, and
\* remove_edge with an id that is not in edge_data, report failure and leave
\* node records, edge records, graph, the four indices, layouts and bounds
\* as they were.
C6_UnknownIdChangesNothing ==
    [][ ( \/ ret'.op \in {"remove_node", "update_node"} /\ ret'.id \notin DOMAIN node_data
          \/ ret'.op = "remove_edge" /\ ret'.id \notin DOMAIN edge_data )
        => (~ret'.ok /\ UNCHANGED store)
      ]_vars

\* a failed update_node on a store that holds a node, an edge and a layout
C6_Witness ==
    /\ Called("update_node")
    /\ ~ret.ok
    /\ DOMAIN node_data # {}
    /\ DOMAIN edge_data # {}
    /\ DOMAIN layouts # {}

C8_AllOrNothing ==
    [][ /\ (ret'.op # "compute_layout" /\ ~ret'.ok) => UNCHANGED store
        /\ (ret'.op = "add_node" /\ ret'.ok) =>
              LET n == ret'.id
              IN /\ n \in DOMAIN node_data' /\ node_data'[n] = ret'.arg
                 /\ n \in graph'.nodes
                 /\ \A k \in TypeKeysOf(ret'.arg) : n \in nodes_by_type'[k]
                 /\ \A k \in RecordSkillKeys(ret'.arg) : n \in nodes_by_skill'[k]
                 /\ \A k \in RecordSectorKeys(ret'.arg) : n \in nodes_by_sector'[k]
                 /\ \A k \in RecordLocationKeys(ret'.arg) : n \in nodes_by_location'[k]
        /\ (ret'.op = "update_node" /\ ret'.ok) =>
              LET n == ret'.id
                  u == ret'.arg
                  new == node_data'[n]
              IN /\ new = Merge(node_data[n], u)
                 /\ "skills" \in DOMAIN u =>
                       \A k \in RecordSkillKeys(new) : n \in nodes_by_skill'[k]
                 /\ "sector" \in DOMAIN u =>
                       \A k \in RecordSectorKeys(new) : n \in nodes_by_sector'[k]
                 /\ "location" \in DOMAIN u =>
                       \A k \in RecordLocationKeys(new) : n \in nodes_by_location'[k]
        /\ (ret'.op = "remove_node" /\ ret'.ok) =>
              LET n == ret'.id
                  old == node_data[n]
              IN /\ n \notin DOMAIN node_data'
                 /\ n \notin graph'.nodes
                 /\ \A k \in TypeKeysOf(old) : n \notin nodes_by_type'[k]
                 /\ \A k \in RecordSkillKeys(old) : n \notin nodes_by_skill'[k]
                 /\ \A k \in RecordSectorKeys(old) : n \notin nodes_by_sector'[k]
                 /\ \A k \in RecordLocationKeys(old) : n \notin nodes_by_location'[k]
        /\ (ret'.op = "create_edge" /\ ret'.ok) =>
              /\ ret'.value.id \in DOMAIN edge_data'
              /\ edge_data'[ret'.value.id] = ret'.value
              /\ G_has_edge(graph', ret'.arg.source, ret'.arg.target)
        /\ (ret'.op = "remove_edge" /\ ret'.ok) =>
              /\ ret'.id \notin DOMAIN edge_data'
              /\ ~G_has_edge(graph', edge_data[ret'.id].source, edge_data[ret'.id].target)
      ]_vars

\* C9: add_node with an id that is already stored replaces the record:
\* get_node(id) then returns the new record, the number of stored nodes is
\* the same, and the call returns the id without raising.
StoredCount == Cardinality(DOMAIN node_data)

LastNode == get_node(ret.id)

C9_AddNodeOverwrites ==
    [][ (ret'.op = "add_node" /\ ret'.ok /\ ret'.id \in DOMAIN node_data) =>
          /\ LastNode'.found
          /\ LastNode'.node = ret'.arg
          /\ StoredCount' = StoredCount
          /\ ret'.value = ret'.id
      ]_vars

\* an add_node that replaced a stored record, another node being stored too
C9_Witness ==
    /\ Succeeded("add_node")
    /\ ret.replaced
    /\ StoredCount = 2

\* C10: add_node over a stored id takes the id out of no index set, and a
\* later remove_node takes it out of the sets of the current record's values
\* only: the id stays in the sets of the superseded values (the keys the
\* current record does not hold) through the overwrite and through the removal.
StaleKeys(idx, held, n) == {k \in DOMAIN idx : n \in idx[k] /\ k \notin held}

C10_StaleEntriesStay ==
    [][ /\ (ret'.op = "add_node" /\ ret'.ok /\ ret'.id \in DOMAIN node_data) =>
              LET n == ret'.id
              IN /\ \A k \in DOMAIN nodes_by_type :
                       n \in nodes_by_type[k] => n \in nodes_by_type'[k]
                 /\ \A k \in DOMAIN nodes_by_skill :
                       n \in nodes_by_skill[k] => n \in nodes_by_skill'[k]
                 /\ \A k \in DOMAIN nodes_by_sector :
                       n \in nodes_by_sector[k] => n \in nodes_by_sector'[k]
                 /\ \A k \in DOMAIN nodes_by_location :
                       n \in nodes_by_location[k] => n \in nodes_by_location'[k]
        /\ (ret'.op = "remove_node" /\ ret'.ok) =>
              LET n == ret'.id
                  rec == node_data[n]
              IN /\ \A k \in StaleKeys(nodes_by_type, TypeKeysOf(rec), n) :
                       n \in nodes_by_type'[k]
                 /\ \A k \in StaleKeys(nodes_by_skill, RecordSkillKeys(rec), n) :
                       n \in nodes_by_skill'[k]
                 /\ \A k \in StaleKeys(nodes_by_sector, RecordSectorKeys(rec), n) :
                       n \in nodes_by_sector'[k]
                 /\ \A k \in StaleKeys(nodes_by_location, RecordLocationKeys(rec), n) :
                       n \in nodes_by_location'[k]
      ]_vars

\* a removed node that index sets of superseded values still hold
C10_Witness ==
    /\ Succeeded("remove_node")
    /\ ret.id \notin DOMAIN node_data
    /\ \E k \in DOMAIN nodes_by_type : ret.id \in nodes_by_type[k]
    /\ \E k \in DOMAIN nodes_by_skill : ret.id \in nodes_by_skill[k]

\* ------------------------------------------------------------------ C11
Viewed(zoom) == ret.op = "get_viewport_graph" /\ ret.arg.zoom_level = zoom

\* C11: in every reachable store state a viewport query at zoom tier 0 returns
\* only records whose current type is Aggregated, Blob or Project, so none of
\* type Individual, Skill or Sector.
C11_TierZeroHidesIndividuals ==
    Viewed(0) => \A node \in ret.value.nodes : node.node_type \in CoarseTypes

\* ------------------------------------------------------------------ C12
\* C12: a viewport query with no center node id returns at most 2000 nodes, at
\* every zoom tier and for every store size.
C12_NoCenterCap ==
    (ret.op = "get_viewport_graph" /\ ret.arg.center_node_id = NoId)
        => Cardinality(ret.value.nodes) <= MaxViewportNodes

\* ------------------------------------------------------------------ C13
\* C13: a viewport query at zoom tier 1 returns at most 200 nodes whose type is
\* Individual, for any center node and any store state.
C13_TierOneIndividualCap ==
    Viewed(1) => Cardinality({node \in ret.value.nodes :
                                 node.node_type = "Individual"}) <= MaxIndividuals

\* ------------------------------------------------------------------ C14
\* the nodes at most k hops from c in the undirected adjacency relation
RECURSIVE Hops(_, _)
Hops(c, k) ==
    IF k < 0 THEN {}
    ELSE IF k = 0 THEN {c}
    ELSE LET near == Hops(c, k - 1)
         IN near \cup {m \in graph.nodes : \E n \in near : {n, m} \in graph.edges}

\* a detail query around a stored center node
CenteredDetail ==
    /\ ret.op = "get_viewport_graph"
    /\ ret.arg.zoom_level >= 2
    /\ ret.arg.center_node_id # NoId
    /\ ret.arg.center_node_id[1] \in DOMAIN node_data

\* C14 as stated: for a detail query (tier >= 2) around a stored node c with
\* any integer depth d, the visible set is exactly the set of nodes at most
\* min(d, 3) hops from c, and it holds c.
C14_VisibleIsHopBall ==
    CenteredDetail =>
        LET c == ret.arg.center_node_id[1]
            d == ret.arg.max_depth
        IN /\ ret.visible = Hops(c, IF d < 3 THEN d ELSE 3)
           /\ c \in ret.visible

\* C14 amended: the same for every depth d >= 0; a negative d counts as 0, the
\* visible set then being the center alone.  The returned records are those of
\* the visible set, so none is more than 3 hops from c.
C14_VisibleWithinClampedDepth ==
    CenteredDetail =>
        LET c == ret.arg.center_node_id[1]
            d == ret.arg.max_depth
            k == IF d < 0 THEN 0 ELSE IF d < 3 THEN d ELSE 3
        IN /\ ret.visible = Hops(c, k)
           /\ c \in ret.visible
           /\ {node.id : node \in ret.value.nodes} = ret.visible
           /\ ret.visible \subseteq Hops(c, 3)

\* a depth above 3 was asked for, a node sits 4 hops from the center and is
\* left out while one 3 hops away is returned
C14_Witness ==
    /\ CenteredDetail
    /\ ret.arg.max_depth > 3
    /\ \E far \in Hops(ret.arg.center_node_id[1], 4) : far \notin ret.visible
    /\ \E n \in ret.visible : n \notin Hops(ret.arg.center_node_id[1], 2)

\* ------------------------------------------------------------------ C15
\* C15: for a detail query (tier >= 2) with no center node, every returned
\* node record carries a position inside the requested rectangle
\* [center_x - width/2, center_x + width/2] x [center_y - height/2,
\* center_y + height/2], also after a stored position changed or nodes were
\* added since the last layout computation.
C15_ReturnedInsideRectangle ==
    (ret.op = "get_viewport_graph" /\ ret.arg.zoom_level >= 2
                                   /\ ret.arg.center_node_id = NoId)
        => \A node \in ret.value.nodes :
              /\ ret.arg.center_x - ret.arg.width \div 2 <= node.x
              /\ node.x <= ret.arg.center_x + ret.arg.width \div 2
              /\ ret.arg.center_y - ret.arg.height \div 2 <= node.y
              /\ node.y <= ret.arg.center_y + ret.arg.height \div 2

\* ------------------------------------------------------------------ C16
\* C16: at tier 1 every returned node is of type Aggregated, Blob or Project,
\* or is an Individual at most 2 hops from the supplied center node, whatever
\* depth was asked for; with no center node, or an unknown one, no Individual
\* is returned.
C16_TierOneNodes ==
    Viewed(1) =>
        \A node \in ret.value.nodes :
            \/ node.node_type \in CoarseTypes
            \/ /\ node.node_type = "Individual"
               /\ ret.arg.center_node_id # NoId
               /\ node.id \in Hops(ret.arg.center_node_id[1], TierOneDepth)

\* ------------------------------------------------------------------ C17
\* the unordered endpoint pair of an edge record
Ends(edge) == {edge.source, edge.target}

\* the stored edge records of the pair of `edge`, and the first inserted one
\* (edge ids grow in insertion order)
SamePair(edge) == {id \in DOMAIN edge_data : Ends(edge_data[id]) = Ends(edge)}
FirstOfPair(edge) == edge_data[SetMin(SamePair(edge))]

ReturnedEdges == {ret.value.edges[i] : i \in DOMAIN ret.value.edges}

\* C17: in every viewport result each returned edge has both endpoints in the
\* visible set, no two returned edges join the same unordered pair of
\* endpoints, and for each pair with both endpoints visible the edge returned
\* is the first-inserted stored record of that pair.
C17_EdgesDeduplicated ==
    ret.op = "get_viewport_graph" =>
        /\ \A edge \in ReturnedEdges : Ends(edge) \subseteq ret.visible
        /\ \A i, j \in DOMAIN ret.value.edges :
              i # j => Ends(ret.value.edges[i]) # Ends(ret.value.edges[j])
        /\ \A id \in DOMAIN edge_data :
              Ends(edge_data[id]) \subseteq ret.visible
                  => FirstOfPair(edge_data[id]) \in ReturnedEdges
        /\ \A edge \in ReturnedEdges : edge = FirstOfPair(edge)

\* a result with a pair stored twice, once in each direction, both ends
\* visible: the first record is returned and the later one is not, while an
\* edge with a hidden end is left out
C17_Witness ==
    /\ ret.op = "get_viewport_graph"
    /\ \E a, b \in DOMAIN edge_data :
          /\ a < b
          /\ edge_data[a].source = edge_data[b].target
          /\ edge_data[a].target = edge_data[b].source
          /\ edge_data[a].source # edge_data[a].target
          /\ edge_data[a] \in ReturnedEdges
          /\ edge_data[b] \notin ReturnedEdges
    /\ \E id \in DOMAIN edge_data : ~(Ends(edge_data[id]) \subseteq ret.visible)

\* ------------------------------------------------------------------ C18
\* C18: in every viewport result, in any reachable store state, viewport_nodes
\* is the number of node records returned in nodes, total_nodes and
\* total_edges are the numbers of node and edge records of the store, and
\* zoom_level is the tier that was asked for.
C18_CountsMatchResult ==
    ret.op = "get_viewport_graph" =>
        /\ ret.value.viewport_nodes = Cardinality(ret.value.nodes)
        /\ ret.value.total_nodes = Cardinality(DOMAIN node_data)
        /\ ret.value.total_edges = Cardinality(DOMAIN edge_data)
        /\ ret.value.zoom_level = ret.arg.zoom_level

\* ------------------------------------------------------------------ C19
Discovered == ret.op = "discover_related" /\ ret.ok

\* C19: for every stored node N and every maxDepth d >= 0, discover(N, d)
\* returns no path of more than d + 1 node ids, and every returned path
\* starts at N.
C19_PathsWithinDepth ==
    (Discovered /\ ret.arg.max_depth >= 0) =>
        \A i \in DOMAIN ret.paths :
            /\ Len(ret.paths[i]) <= ret.arg.max_depth + 1
            /\ ret.paths[i][1] = ret.arg.node_id

\* ------------------------------------------------------------------ C20
\* the hop distance from c to a node n that can be reached from c
Distance(c, n) == SetMin({k \in 0..Cardinality(graph.nodes) : n \in Hops(c, k)})

\* a path of the graph: each id is adjacent to the next
IsWalk(path) ==
    \A i \in 1..(Len(path) - 1) : {path[i], path[i + 1]} \in graph.edges

\* C20: discover (limit >= 0) returns at most limit related records and as
\* many paths, paths[i] ending at related[i]; the path lengths never decrease
\* along the result, no node is returned twice, the source is not among the
\* related records and, with no relationship filter, each path is a shortest
\* path from the source in the undirected adjacency relation.
C20_DiscoverResult ==
    Discovered =>
        LET related == ret.related_nodes
            paths == ret.paths
            source == ret.arg.node_id
        IN /\ Len(related) <= ret.arg.limit
           /\ Len(paths) = Len(related)
           /\ \A i \in DOMAIN paths : paths[i][Len(paths[i])] = related[i].id
           /\ \A i, j \in DOMAIN paths : i < j => Len(paths[i]) <= Len(paths[j])
           /\ \A i, j \in DOMAIN related : i # j => related[i].id # related[j].id
           /\ \A i \in DOMAIN related : related[i].id # source
           /\ ret.arg.relationship_types = {} =>
                 \A i \in DOMAIN paths :
                     /\ paths[i][1] = source
                     /\ IsWalk(paths[i])
                     /\ Len(paths[i]) - 1 = Distance(source, related[i].id)

\* an unfiltered discovery cut at its limit: as many records as the limit, of
\* different path lengths, the last one having a longer way from the source
\* than the one returned, and a node in reach that is not returned
C20_Witness ==
    /\ Discovered
    /\ ret.arg.relationship_types = {}
    /\ Len(ret.related_nodes) = ret.arg.limit
    /\ ret.arg.limit >= 2
    /\ Len(ret.paths[1]) < Len(ret.paths[ret.arg.limit])
    /\ \E n \in Hops(ret.arg.node_id, ret.arg.max_depth) :
          /\ n # ret.arg.node_id
          /\ \A i \in DOMAIN ret.related_nodes : ret.related_nodes[i].id # n
    /\ LET last == ret.paths[ret.arg.limit]
       IN \E m \in graph.nodes :
             /\ m \notin {last[i] : i \in DOMAIN last}
             /\ {last[Len(last)], m} \in graph.edges
             /\ Distance(ret.arg.node_id, m) >= Len(last) - 1

\* ------------------------------------------------------------------ C21
\* some stored edge record joins a and b, in either direction, with a type of
\* `types`
JoinedBy(a, b, types) ==
    \E id \in DOMAIN edge_data :
        /\ {edge_data[id].source, edge_data[id].target} = {a, b}
        /\ edge_data[id].edge_type \in types

\* C21: with a non-empty relationship-type filter, every two consecutive ids
\* of every returned path are joined by a stored edge record whose type is in
\* the filter, each path leading from the source to its related node: a node
\* that is reached only through edges of other types is not returned.
C21_FilteredPaths ==
    (Discovered /\ ret.arg.relationship_types # {}) =>
        \A i \in DOMAIN ret.paths :
            LET path == ret.paths[i]
            IN /\ path[1] = ret.arg.node_id
               /\ path[Len(path)] = ret.related_nodes[i].id
               /\ \A j \in 1..(Len(path) - 1) :
                     JoinedBy(path[j], path[j + 1], ret.arg.relationship_types)

\* a filtered discovery that returns a node and leaves out a neighbour of the
\* source which only an edge of another type joins to it
C21_Witness ==
    /\ Discovered
    /\ ret.arg.relationship_types # {}
    /\ ret.arg.limit = MaxLimit
    /\ ret.related_nodes # <<>>
    /\ \E n \in G_neighbors(graph, ret.arg.node_id) :
          /\ n # ret.arg.node_id
          /\ ~JoinedBy(ret.arg.node_id, n, ret.arg.relationship_types)
          /\ \A i \in DOMAIN ret.related_nodes : ret.related_nodes[i].id # n

\* ------------------------------------------------------------------ C22
\* C22: discover with a source id that is not stored fails with NotFound and
\* returns no source record, no related records and no paths, while a stored
\* source gets an answer with its record, be the related list empty or not.
C22_UnknownSourceNotFound ==
    ret.op = "discover_related" =>
        IF ret.arg.node_id \in DOMAIN node_data
        THEN /\ ret.ok
             /\ ret.status = "200"
             /\ ret.source_node = node_data[ret.arg.node_id]
        ELSE /\ ~ret.ok
             /\ ret.status = "404 Node not found"
             /\ ret.source_node = NodeNone
             /\ ret.related_nodes = <<>>
             /\ ret.paths = <<>>

\* a discovery from an id that is not stored
C22_Witness ==
    /\ ret.op = "discover_related"
    /\ ret.arg.node_id \notin DOMAIN node_data
    /\ ~ret.ok

\* ------------------------------------------------------------------ C23
\* an answered similarity call
Similars == ret.op = "get_similar_nodes" /\ ret.ok

SimilarIds == {ret.similar_nodes[i].id : i \in DOMAIN ret.similar_nodes}

\* C23: for a stored node N, similar(N) never includes N itself and never
\* includes a node whose type differs from N's.
C23_SimilarExcludes ==
    ret.op = "get_similar_nodes" =>
        /\ ret.arg \in DOMAIN node_data => ret.status # "404 Node not found"
        /\ ret.ok =>
              \A i \in DOMAIN ret.similar_nodes :
                  /\ ret.similar_nodes[i].id # ret.arg
                  /\ ret.similar_nodes[i].id \in DOMAIN node_data
                  /\ ret.similar_nodes[i].node_type = node_data[ret.arg].node_type

\* similar nodes are returned while a node of another type that shares the
\* source's sector and location is stored and left out
C23_Witness ==
    /\ Similars
    /\ ret.similar_nodes # <<>>
    /\ Len(ret.similar_nodes) < ret.limit
    /\ \E n \in DOMAIN node_data \ SimilarIds :
          /\ node_data[n].node_type # node_data[ret.arg].node_type
          /\ node_data[n].sector = node_data[ret.arg].sector
          /\ node_data[n].location = node_data[ret.arg].location

\* ------------------------------------------------------------------ C24
\* the score as stated: the sectors compared as they are stored
StatedScore(source, node) ==
    (IF source.skills # {} /\ node.skills # {}
     THEN Cardinality(source.skills \cap node.skills) * 2 ELSE 0)
    + (IF Truthy(source.sector) /\ node.sector = source.sector THEN 3 ELSE 0)
    + (IF Truthy(source.location) /\ source.location = node.location
       THEN 1 ELSE 0)

\* the stored nodes of N's type, N left out, that the stated score puts above 0
StatedSimilar(n) ==
    {c \in DOMAIN node_data \ {n} :
        /\ node_data[c].node_type = node_data[n].node_type
        /\ StatedScore(node_data[n], node_data[c]) > 0}

\* C24: similar(N) on a stored N scores each candidate of N's type with
\* 2 x shared skills + 3 for the same sector as stored + 1 for the same
\* location, and returns, within the limit, exactly the candidates that score
\* above 0.
C24_ScoreAsStated ==
    (ret.op = "get_similar_nodes" /\ ret.arg \in DOMAIN node_data) =>
        /\ ret.ok
        /\ \A i \in DOMAIN ret.scored :
              ret.scored[i].score =
                  StatedScore(node_data[ret.arg], node_data[ret.scored[i].id])
        /\ IF Cardinality(StatedSimilar(ret.arg)) <= ret.limit
           THEN SimilarIds = StatedSimilar(ret.arg)
           ELSE /\ SimilarIds \subseteq StatedSimilar(ret.arg)
                /\ Len(ret.similar_nodes) = ret.limit

\* the same, for sources and candidates that all have a sector
C24_ScoreAsStatedWithSectors ==
    (/\ ret.op = "get_similar_nodes"
     /\ ret.arg \in DOMAIN node_data
     /\ \A n \in DOMAIN node_data : node_data[n].sector # None) =>
        /\ ret.ok
        /\ \A i \in DOMAIN ret.scored :
              ret.scored[i].score =
                  StatedScore(node_data[ret.arg], node_data[ret.scored[i].id])

\* ------------------------------------------------------------------ C25
\* the score of a stored node against the source of the last similarity call
ScoreOf(n) == similarity_score(node_data[ret.arg], node_data[n])

\* the candidates with a positive score that the result leaves out
LeftOut ==
    {n \in DOMAIN node_data \ (SimilarIds \cup {ret.arg}) :
        /\ node_data[n].node_type = node_data[ret.arg].node_type
        /\ ScoreOf(n) > 0}

\* C25: similar(N, limit) returns at most limit records in the order of
\* non-increasing score, and every candidate left out by the truncation scores
\* no more than every candidate returned.
C25_SortedAndTruncated ==
    Similars =>
        /\ Len(ret.similar_nodes) <= ret.limit
        /\ \A i, j \in DOMAIN ret.similar_nodes :
              i < j => ScoreOf(ret.similar_nodes[i].id) >= ScoreOf(ret.similar_nodes[j].id)
        /\ \A n \in LeftOut :
              /\ Len(ret.similar_nodes) = ret.limit
              /\ \A i \in DOMAIN ret.similar_nodes :
                    ScoreOf(n) <= ScoreOf(ret.similar_nodes[i].id)

\* a truncated result of two or more nodes with different scores, which the
\* store does not hold in that order
C25_Witness ==
    /\ Similars
    /\ LeftOut # {}
    /\ Len(ret.similar_nodes) >= 2
    /\ ScoreOf(ret.similar_nodes[1].id) > ScoreOf(ret.similar_nodes[2].id)
    /\ ret.similar_nodes[1].id > ret.similar_nodes[2].id

\* ------------------------------------------------------------------ C26
\* the record holds, ignoring case, one of the skills
HoldsOneOf(rec, skills) ==
    \E s \in skills : Lower(s) \in SkillKeysOf(rec.skills)

\* C26: in every reachable state of the store, after update_node changed a
\* node's skills or add_node overwrote an id as well, search(skills=S) returns
\* only nodes whose current skill list holds, ignoring case, a skill of S.
C26_SkillHolders ==
    (ret.op = "search" /\ ret.arg.skills # {}) =>
        \A i \in DOMAIN ret.nodes : HoldsOneOf(ret.nodes[i], ret.arg.skills)

\* the same in the states that no add_node on a stored id has led to
C26_SkillHoldersWithoutOverwrite ==
    (/\ ret.op = "search"
     /\ ret.arg.skills # {}
     /\ \A n \in DOMAIN node_data :
           StaleKeys(nodes_by_skill, RecordSkillKeys(node_data[n]), n) = {}) =>
        \A i \in DOMAIN ret.nodes : HoldsOneOf(ret.nodes[i], ret.arg.skills)

\* ------------------------------------------------------------------ C27
\* the stored nodes that satisfy every criterion of the request
Satisfying(request) ==
    {n \in DOMAIN node_data :
        LET node == node_data[n]
        IN /\ request.node_types # {} => node.node_type \in request.node_types
           /\ request.skills # {} => HoldsOneOf(node, request.skills)
           /\ Truthy(request.sector) =>
                 /\ node.sector # None
                 /\ Lower(node.sector) = Lower(request.sector)
           /\ Truthy(request.location) =>
                 /\ node.location # None
                 /\ IsSubstring(Lower(request.location), Lower(node.location))
           /\ (request.availability # <<>> /\ node.node_type = "Individual") =>
                 Get(node, "availability") = request.availability}

\* C27: for every limit >= 0, 0 included, search returns at most limit
\* records, and exactly limit when at least limit stored nodes satisfy every
\* criterion.
C27_AtMostLimit ==
    (ret.op = "search" /\ ret.arg.limit >= 0) =>
        /\ Len(ret.nodes) <= ret.arg.limit
        /\ Cardinality(Satisfying(ret.arg)) >= ret.arg.limit =>
              Len(ret.nodes) = ret.arg.limit

\* the same for the limits of 1 and more
C27_AtMostPositiveLimit ==
    (ret.op = "search" /\ ret.arg.limit >= 1) =>
        /\ Len(ret.nodes) <= ret.arg.limit
        /\ Cardinality(Satisfying(ret.arg)) >= ret.arg.limit =>
              Len(ret.nodes) = ret.arg.limit

\* ------------------------------------------------------------------ C28
\* every index holds each stored node under the keys of its record, and no
\* stored node under another key
IndicesConsistent ==
    \A n \in DOMAIN node_data :
        /\ \A t \in DOMAIN nodes_by_type :
              n \in nodes_by_type[t] <=> t = node_data[n].node_type
        /\ \A k \in DOMAIN nodes_by_skill :
              n \in nodes_by_skill[k] <=> k \in RecordSkillKeys(node_data[n])
        /\ \A k \in DOMAIN nodes_by_sector :
              n \in nodes_by_sector[k] <=> k \in AttrKeys(node_data[n].sector)
        /\ \A k \in DOMAIN nodes_by_location :
              n \in nodes_by_location[k] <=> k \in AttrKeys(node_data[n].location)

\* C28: with a limit of at least the number of stored nodes and consistent
\* indices, search returns exactly the stored nodes that satisfy every supplied
\* criterion: a requested type, one of the requested skills ignoring case, the
\* requested sector ignoring case, a location that contains the requested one
\* ignoring case, and the requested availability on Individual nodes only.
C28_ExactResult ==
    (/\ ret.op = "search"
     /\ ret.arg.limit >= Cardinality(DOMAIN node_data)
     /\ IndicesConsistent) =>
        /\ {ret.nodes[i].id : i \in DOMAIN ret.nodes} = Satisfying(ret.arg)
        /\ Len(ret.nodes) = Cardinality(Satisfying(ret.arg))
        /\ \A i \in DOMAIN ret.nodes : ret.nodes[i] = node_data[ret.nodes[i].id]

\* a search by sector, location and availability with a limit as large as the
\* store returns an individual and a blob, which passes the availability
\* filter, while an individual is left out by that filter alone
C28_Witness ==
    /\ ret.op = "search"
    /\ ret.arg.limit >= Cardinality(DOMAIN node_data)
    /\ IndicesConsistent
    /\ Truthy(ret.arg.sector)
    /\ Truthy(ret.arg.location)
    /\ ret.arg.availability # <<>>
    /\ \E i \in DOMAIN ret.nodes : ret.nodes[i].node_type = "Blob"
    /\ \E i \in DOMAIN ret.nodes : ret.nodes[i].node_type = "Individual"
    /\ \E n \in Satisfying([ret.arg EXCEPT !.availability = <<>>]) :
          n \notin Satisfying(ret.arg)

\* a search by skill in two spellings and by type returns the holders of either
C28_WitnessSkills ==
    /\ ret.op = "search"
    /\ ret.arg.limit >= Cardinality(DOMAIN node_data)
    /\ ret.arg.node_types # {}
    /\ ret.arg.skills = {"Go"}
    /\ \E i \in DOMAIN ret.nodes : ret.nodes[i].skills = {"go"}
    /\ \E i \in DOMAIN ret.nodes : "Go" \in ret.nodes[i].skills

\* ------------------------------------------------------------------ C29
\* the member_count of the stored Blobs among the listed ids, added up
RECURSIVE ListedMemberCount(_)
ListedMemberCount(child_blob_ids) ==
    IF child_blob_ids = <<>>
    THEN 0
    ELSE (IF Head(child_blob_ids) \in DOMAIN node_data
          THEN node_data[Head(child_blob_ids)].member_count ELSE 0)
         + ListedMemberCount(Tail(child_blob_ids))

\* C29: in every reachable state, after the generation and after any later
\* create or delete of Individuals, Blobs or member_of edges, the
\* total_member_count of each Aggregated node equals the sum of member_count
\* over the Blobs listed in its child_blob_ids.
C29_TotalIsSumOfChildren ==
    \A a \in DOMAIN node_data :
        node_data[a].node_type = "Aggregated" =>
            node_data[a].total_member_count =
                ListedMemberCount(node_data[a].child_blob_ids)

\* the same right after the generation
C29_TotalAfterGeneration ==
    ret.op = "init" => C29_TotalIsSumOfChildren

\* ------------------------------------------------------------------ C30
\* the Individuals that a member_of edge record joins to the node
MembersOf(n) ==
    {edge_data[e].source : e \in {d \in DOMAIN edge_data :
                                     /\ edge_data[d].edge_type = "member_of"
                                     /\ edge_data[d].target = n}}

\* C30: after create_edge(member_of) from an Individual to a Blob, the Blob's
\* member_count equals the number of Individuals that member_of edge records
\* join to it: k after k calls from k distinct Individuals on a Blob that was
\* created with member_count 0.
C30_MemberCountFollowsEdges ==
    (/\ ret.op = "create_edge"
     /\ ret.ok
     /\ ret.arg.target \in DOMAIN node_data
     /\ node_data[ret.arg.target].node_type = "Blob"
     /\ ret.arg.source \in DOMAIN node_data
     /\ node_data[ret.arg.source].node_type = "Individual") =>
        node_data[ret.arg.target].member_count
            = Cardinality(MembersOf(ret.arg.target))

\* the same right after the generation, for every Blob
C30_MemberCountAfterGeneration ==
    ret.op = "init" =>
        \A b \in DOMAIN node_data :
            node_data[b].node_type = "Blob" =>
                node_data[b].member_count = Cardinality(MembersOf(b))

\* ------------------------------------------------------------------ C33
\* a compute_layout call that found nodes to place
Computed == ret.op = "compute_layout" /\ DOMAIN ret.value # {}

\* C33: after compute_layout on a non-empty graph every stored node's x and y
\* are its computed position, and the bounds are the smallest and largest x
\* and y of the computed positions moved outward by the margin of 50, so every
\* node lies inside the bounds.
C33_LayoutWrittenBack ==
    Computed =>
        /\ \A n \in DOMAIN node_data :
              /\ n \in DOMAIN ret.value
              /\ node_data[n].x = ret.value[n][1]
              /\ node_data[n].y = ret.value[n][2]
              /\ bounds.min_x < node_data[n].x /\ node_data[n].x < bounds.max_x
              /\ bounds.min_y < node_data[n].y /\ node_data[n].y < bounds.max_y
        /\ \A n \in DOMAIN ret.value :
              /\ bounds.min_x + 50 <= ret.value[n][1]
              /\ ret.value[n][1] <= bounds.max_x - 50
              /\ bounds.min_y + 50 <= ret.value[n][2]
              /\ ret.value[n][2] <= bounds.max_y - 50
        /\ \E n \in DOMAIN ret.value : bounds.min_x + 50 = ret.value[n][1]
        /\ \E n \in DOMAIN ret.value : bounds.max_x - 50 = ret.value[n][1]
        /\ \E n \in DOMAIN ret.value : bounds.min_y + 50 = ret.value[n][2]
        /\ \E n \in DOMAIN ret.value : bounds.max_y - 50 = ret.value[n][2]

\* two stored nodes placed at different positions
C33_Witness ==
    /\ Computed
    /\ \E n, m \in DOMAIN node_data :
          /\ node_data[n].x # node_data[m].x
          /\ node_data[n].y # node_data[m].y

\* ------------------------------------------------------------------ C34
\* the position a returned record carries is the one cached under `tier` when
\* that entry has one for the node, and the stored one otherwise
ResolvedFrom(tier) ==
    \A node \in ret.value.nodes :
        IF tier \in DOMAIN layouts /\ node.id \in DOMAIN layouts[tier]
        THEN <<node.x, node.y>> = layouts[tier][node.id]
        ELSE /\ node.x = node_data[node.id].x
             /\ node.y = node_data[node.id].y

C36_UpdateMerges ==
    [][ (ret'.op = "update_node" /\ ret'.ok) =>
          LET n == ret'.id
              u == ret'.arg
          IN /\ DOMAIN node_data' = DOMAIN node_data
             /\ DOMAIN node_data'[n] = DOMAIN node_data[n] \cup DOMAIN u
             /\ \A k \in DOMAIN node_data'[n] :
                   node_data'[n][k] = IF k \in DOMAIN u THEN u[k] ELSE node_data[n][k]
             /\ \A m \in DOMAIN node_data \ {n} : node_data'[m] = node_data[m]
             /\ UNCHANGED <<edge_data, graph, nodes_by_type>>
             /\ "skills" \notin DOMAIN u => UNCHANGED nodes_by_skill
             /\ "sector" \notin DOMAIN u => UNCHANGED nodes_by_sector
             /\ "location" \notin DOMAIN u => UNCHANGED nodes_by_location
      ]_vars

\* a successful update that names the skills alone, of a node that has a sector
\* and a location, in a store with another node and an edge
C36_Witness ==
    /\ Succeeded("update_node")
    /\ DOMAIN ret.arg = {"skills"}
    /\ Truthy(node_data[ret.id].sector)
    /\ Truthy(node_data[ret.id].location)
    /\ DOMAIN node_data # {ret.id}
    /\ DOMAIN edge_data # {}

\* ------------------------------------------------------------------ C37
\* some stored edge record joins a and b, in either orientation
RecordJoins(a, b) ==
    \E id \in DOMAIN edge_data :
        {edge_data[id].source, edge_data[id].target} = {a, b}

\* C37: after any sequence of add_edge, remove_edge and remove_node calls two
\* nodes are adjacent in the graph that BFS, discovery and degree walk if and
\* only if some stored edge record joins them, in either orientation; taking
\* away one of several records of a pair leaves the pair adjacent.
C37_AdjacentIffRecord ==
    \A a \in NodeIds : \A b \in NodeIds \ {a} :
        G_has_edge(graph, a, b) <=> RecordJoins(a, b)

\* the part that no operation breaks: adjacent nodes are joined by a record
C37_AdjacentOnlyWithRecord ==
    \A a \in NodeIds : \A b \in NodeIds \ {a} :
        G_has_edge(graph, a, b) => RecordJoins(a, b)

\* ------------------------------------------------------------------ C40
\* C40: for every stored node N, similar(N, limit) completes and returns a
\* list, which may be empty, and no error, also when N or a candidate of its
\* type was created without a sector or a location (None).
C40_SimilarCompletes ==
    (ret.op = "get_similar_nodes" /\ ret.arg \in DOMAIN node_data) =>
        /\ ret.ok
        /\ ret.status = "200"

\* the same where every stored node has a sector, the location being None or not
C40_SimilarCompletesWithSectors ==
    (/\ ret.op = "get_similar_nodes"
     /\ ret.arg \in DOMAIN node_data
     /\ \A n \in DOMAIN node_data : node_data[n].sector # None) =>
        /\ ret.ok
        /\ ret.status = "200"

\* ------------------------------------------------------------------ C35
QueryOps ==
    {"get_node", "get_viewport_graph", "search", "discover_related",
     "get_similar_nodes", "get_neighbors"}

\* C35: the query operations (get node, viewport, search, discover, similar,
\* neighbours) leave the store as it was: node records, edge records, the
\* adjacency, every index set, layouts and bounds; of the calls that are no
\* mutation only compute_layout writes coordinates.
C35_QueriesLeaveStore ==
    [][ /\ ret'.op \in QueryOps => UNCHANGED store
        /\ (\E n \in DOMAIN node_data \cap DOMAIN node_data' :
               <<node_data'[n].x, node_data'[n].y>> # <<node_data[n].x, node_data[n].y>>)
           => ret'.op \in {"compute_layout", "add_node", "update_node"}
      ]_vars

\* a viewport query on a store with an edge and a layout, a returned node
\* having a stored position that is not the cached one
C35_Witness ==
    /\ ret.op = "get_viewport_graph"
    /\ DOMAIN layouts # {}
    /\ \E node \in ret.value.nodes :
          /\ node.id \in DOMAIN layouts[1]
          /\ node.x # node_data[node.id].x

\* a query of each other kind that found something
C35_WitnessOthers ==
    /\ DOMAIN node_data # {}
    /\ \/ ret.op = "get_neighbors" /\ ret.ok /\ ret.count > 1
       \/ ret.op = "discover_related" /\ ret.ok /\ ret.related_nodes # <<>>
       \/ ret.op = "search" /\ ret.nodes # <<>>
       \/ ret.op = "get_similar_nodes" /\ ret.ok /\ ret.similar_nodes # <<>>
       \/ ret.op = "get_node" /\ ret.ok

\* ------------------------------------------------------------------ C38
\* how many times the message of request t was delivered to ws
Deliveries(t, ws) ==
    Cardinality({k \in DOMAIN received[ws] : received[ws][k].request = t})

\* the broadcast of request t has ended
Ended(t) == requests[t].pc = "done" /\ requests[t].status = "200"

\* connected when the broadcast of t started and still connected: a websocket
\* connects once, so it has been connected all the while
StayedConnected(t) ==
    {ws \in Range(requests[t].start) : sockets[ws] = "open"}

\* C38: a broadcast delivers its message exactly once to every subscriber
\* that is connected when it starts and stays connected until it ends, however
\* the connects and disconnects of other subscribers fall between its sends.
C38_DeliversToAllWhoStay ==
    \A t \in Requests :
       Ended(t) => \A ws \in StayedConnected(t) : Deliveries(t, ws) = 1

\* what holds of it: nobody receives the message of a broadcast twice
C38_NoneReceivesTwice ==
    \A t \in Requests, ws \in Sockets : Deliveries(t, ws) <= 1

\* ------------------------------------------------------------------ C31
\* C31: when the delivery to one subscriber fails during a broadcast, each of
\* the other subscribers still receives the message, and the mutation that
\* triggered the broadcast stays applied.
C31_FailureSparesOthers ==
    \A t \in Requests :
       (Ended(t) /\ requests[t].failed # {})
       => \A ws \in StayedConnected(t) : Deliveries(t, ws) = 1

\* nothing was taken off the list since the broadcast of t started
NoneRemoved(t) ==
    /\ Len(requests[t].start) <= Len(active_connections)
    /\ \A k \in DOMAIN requests[t].start : active_connections[k] = requests[t].start[k]

\* what holds of it: a send of a broadcast, failed or not, leaves the store as
\* the mutation made it, and a broadcast during which no handler disconnected
\* a websocket ends with every connected subscriber served once
C31_FailureSparesOthersOnFixedList ==
    [][ \A t \in Requests :
          /\ (requests[t].pc = "sending" /\ requests'[t] # requests[t])
             => UNCHANGED store
          /\ (~Ended(t) /\ Ended(t)' /\ NoneRemoved(t)')
             => \A ws \in StayedConnected(t)' : Deliveries(t, ws)' = 1
      ]_vars

\* ------------------------------------------------------------------ C32
\* the store after the step holds the mutation that message m announces; for
\* a deletion, the node was stored before the step
Applied(m) ==
    CASE m.type = "node_created" ->
            m.node.id \in DOMAIN node_data' /\ node_data'[m.node.id] = m.node
      [] m.type = "node_deleted" ->
            m.node_id \in DOMAIN node_data /\ m.node_id \notin DOMAIN node_data'
      [] m.type = "edge_created" ->
            m.edge.id \in DOMAIN edge_data' /\ edge_data'[m.edge.id] = m.edge

\* the step applies a mutation to the store
Mutates ==
    \/ ret'.op \in {"add_node", "remove_node"} /\ ret'.ok
    \/ ret'.op = "create_edge" /\ ret'.ok

\* C32: a node_created, node_deleted or edge_created broadcast starts in a
\* step after which its mutation is in the store; each successful mutation
\* starts one broadcast, whose message stays what it was and reaches nobody
\* twice; a request that failed with 404 never broadcasts.
C32_BroadcastAfterMutation ==
    [][ \A t \in Requests :
          /\ (requests[t].pc = "idle" /\ requests'[t].pc # "idle")
             => /\ requests'[t].status = "200" <=> Mutates
                /\ requests'[t].status = "200" => Applied(requests'[t].message)
                /\ \A u \in Requests \ {t} : requests'[u] = requests[u]
          /\ requests[t].pc # "idle"
             => /\ requests'[t].status = requests[t].status
                /\ requests[t].status = "200"
                   => requests'[t].message = requests[t].message
                /\ requests[t].pc = "done" => requests'[t] = requests[t]
          /\ \A ws \in Sockets :
                /\ Deliveries(t, ws)' <= 1
                /\ Deliveries(t, ws)' = 1
                   => /\ requests'[t].status = "200"
                      /\ \E k \in DOMAIN received'[ws] :
                            received'[ws][k] =
                               [request |-> t, message |-> requests'[t].message]
      ]_vars

\* a delete that failed with 404 and broadcast nothing, and a delete that
\* succeeded and whose node_deleted message has reached a client
C32_Witness ==
    \E t \in Requests, u \in Requests :
       /\ requests[t].pc = "done" /\ requests[t].status = "404"
       /\ ret.op = "remove_node" /\ ~ret.ok
       /\ \A ws \in Sockets : Deliveries(t, ws) = 0
       /\ Ended(u) /\ requests[u].message.type = "node_deleted"
       /\ \E ws \in Sockets : Deliveries(u, ws) = 1

\* ------------------------------------------------------------------ C39
Endpoints(e) == {e.source, e.target}

\* C39: however create-edge and delete-node requests interleave, an edge
\* record is inserted in the step that checked its endpoints, both stored
\* before and after it, and no stored edge record names a deleted node.
C39_CheckAndInsertAtomic ==
    [][ /\ \A e \in DOMAIN edge_data' \ DOMAIN edge_data :
              Endpoints(edge_data'[e]) \subseteq DOMAIN node_data \cap DOMAIN node_data'
        /\ \A e \in DOMAIN edge_data' :
              Endpoints(edge_data'[e]) \subseteq DOMAIN node_data'
      ]_vars

\* while the broadcast of a delete-node request is still sending, a create-edge
\* request for the deleted node is refused
C39_Witness ==
    /\ ret.op = "create_edge" /\ ~ret.ok
    /\ {ret.arg.source, ret.arg.target} \subseteq {1, 2}
    /\ \E t \in Requests :
          /\ requests[t].pc = "sending"
          /\ requests[t].message.type = "node_deleted"
          /\ requests[t].message.node_id \in {ret.arg.source, ret.arg.target}

\* an edge is stored, then one of its nodes is deleted and the edge with it
C39_WitnessEdgeGone ==
    /\ ret.op = "remove_node" /\ ret.ok /\ ret.value > 0
    /\ \E t \in Requests : Ended(t) /\ requests[t].message.type = "edge_created"

====
